---- MODULE Spec2Model ----
(***************************************************************************)
(* Segment upload, repair checker and segment repair of the storage        *)
(* network: pkg/storage/ec (ecClient), pkg/storage/segments (segmentStore) *)
(* and pkg/datarepair/checker; the Retrieve and Store sessions of the      *)
(* piece store server (psserver); the MultipartStream of the gateway       *)
(* (miniogw).                                                              *)
(*                                                                         *)
(* SpecUpload follows one segmentStore.Put through ecClient.Put at the     *)
(* granularity of its goroutines: one piece Put per node, the infos        *)
(* channel, the collecting loop, the deferred clean-up, the pointer write. *)
(* SpecRepair follows the pointer store, the overlay cache, the checker    *)
(* and segmentStore.Repair, with ecClient.Put taken as one step.           *)
(* SpecRetrieve follows the allocation recv goroutine and the data send    *)
(* loop of one Server.retrieveData around their throttle.                  *)
(* SpecStore follows one Server.Store, read by read of its StreamReader.   *)
(* SpecMultipart follows AddPart, Close and Abort calls against the thread *)
(* that reads one MultipartStream.                                         *)
(* SpecPool follows Dial and Disconnect calls on one ConnectionPool.       *)
(* SpecPointerdb follows the RPCs of the pointer service, SpecCursor the   *)
(* audit cursor over its listings, SpecVerifier one audit of a stripe.     *)
(* SpecSender follows the ticker and the goroutines of the agreement       *)
(* sender of a storage node, SpecDecode one read through the erasure       *)
(* decoder.  SpecOverlay follows bulk lookups in the overlay cache,        *)
(* SpecRouting the replacement cache of the routing table, SpecRepairCall  *)
(* single calls of segmentStore.Repair, SpecRegistry the goroutines that   *)
(* call into the registry of pending multipart uploads.                    *)
(***************************************************************************)
EXTENDS Integers, Sequences, FiniteSets, TLC

\* ------------------------------------------------------------------------
\* Bounds and configuration
\* ------------------------------------------------------------------------

\* Redundancy strategy s.rs of the segment store (configuration): k, r, o, n.
RequiredCount == 2
RepairThreshold == RequiredCount + 1
OptimalThreshold == RepairThreshold
TotalCount == OptimalThreshold + 1

\* Storage nodes beyond TotalCount that exist in the network.
SpareNodes == 2

NumNodes == TotalCount + SpareNodes
Nodes == 1..NumNodes

\* A nil *pb.Node; GetId() of it is the empty string.
NIL == 0

\* The keys of the pointer store, in byte order.
PathSeq == <<"a", "b">>
Paths == {PathSeq[i] : i \in DOMAIN PathSeq}

\* Segment uploads followed in SpecRepair.
MaxUploads == 2

\* Nodes that may be missing from the overlay cache at the same time.
MaxOffline == 2

\* The limit the checker is built with (Config.initialize passes 0).
CheckerLimit == 0

\* storage.LookupLimit, the store's cap on a listing; the stores followed
\* here do not hold more keys than that.
LookupLimit == Len(PathSeq)

Indices == 1..TotalCount

\* Retrieve: the size of one message of the data send loop (32 KiB in the
\* code), the longest section read and the number of messages the client
\* sends after the first one.
MessageSize == 2
MaxLength == 3
MaxAllocs == 3

\* Allocation totals run from 0 to beyond the section's length.
MaxTotal == MaxLength + 1

\* Store: the largest bandwidth and space left when a session starts, the
\* most bytes one message carries, the messages the client sends after the
\* first one and the largest allocation total.
MaxBudget == 3
MaxContent == 2
MaxStoreMsgs == 3
MaxStoreTotal == 2

\* Multipart upload: the part ids in use and the AddPart calls followed.
MaxPartID == 3
MaxAdds == MaxPartID + 1
PartIDs == 1..MaxPartID

\* The length of the content of the part with a given id.
PartSize(id) == IF id % 2 = 1 THEN 2 ELSE 1

\* Connection pool: the threads that call Dial for the node, the Dial
\* calls and the Disconnect calls followed.
NumCallers == 2
MaxDials == 3
MaxDisconnects == 2
Callers == 1..NumCallers

\* pointerdb.Config: the smallest remote segment and the largest inline
\* segment that Put accepts; the largest size that a request carries.
MinRemoteSegmentSize == 2
MaxInlineSegmentSize == 1
MaxSegmentSize == 3

\* The paths of the pointer DB that the pointer service and the audit
\* cursor work on, in their byte order: one more than a listing holds.
\* StartPath is the empty path.
MaxPointerPaths == LookupLimit + 1
PointerPaths == 1..MaxPointerPaths
StartPath == 0

\* The replacement caches of the routing table: rt.rcBucketSize nodes per
\* k-bucket; the insertions made, the two k-buckets followed, the nodes
\* inserted.
rcBucketSize == 2
MaxInserts == 4
KadBuckets == {1, 2}
ReplacementNodes == 1..(rcBucketSize + 1)

\* The ids that a bulk lookup asks for: at most MaxLookupIds of them, each
\* the id of one of the first two nodes or the zero id.
MaxLookupIds == 2
LookupIds == {1, 2, NIL}

\* storage.Delimiter ('/') and the keys of the paths as byte strings, in
\* their byte order: "m", "m/a/s", "m/s", "m/t", "s", "v/m".
Delimiter == 1

\* Goroutines of the gateway that call into one MultipartUploads.
Goroutines == {1, 2}

\* Uploads that Create registers in the runs followed.
MaxUploadIds == 3
UploadIds == 1..MaxUploadIds

\* The bucket/object pairs that uploads go to.
Locations == {1, 2}
PointerKeys == << <<2>>, <<2, 1, 2, 1, 3>>, <<2, 1, 3>>, <<2, 1, 4>>, <<3>>, <<4, 1, 2>> >>
KeyOf(p) == PointerKeys[p]

\* The prefixes, the start_after / end_before bounds and the limits that a
\* ListRequest carries; the empty string and 0 are "not given".
ListPrefixes == {<<>>, <<2>>, <<2, 1>>}
ListBounds == {<<>>, <<2, 1>>, <<3>>}
ListLimits == {0, 1}

\* The satellites that agreements are made with, the agreements that the
\* storage node stores in all, and the goroutines of the agreement sender
\* that run at a time. Agreement a is with satellite SatelliteOf(a).
NumSatellites == 1
MaxAgreements == 2
MaxSenders == 1
Satellites == 1..NumSatellites
SatelliteOf(a) == ((a - 1) % NumSatellites) + 1

\* ------------------------------------------------------------------------
\* Pure helpers of ecClient and segmentStore
\* ------------------------------------------------------------------------

Range(s) == {s[i] : i \in DOMAIN s}

\* ecclient.unique: sort the ids, then look for identical non-empty
\* neighbours.
unique(ns) ==
    IF Len(ns) < 2 THEN TRUE
    ELSE LET ids == SortSeq(ns, LAMBDA a, b : a < b)
         IN  \A i \in 2..Len(ids) : ~(ids[i] # NIL /\ ids[i] = ids[i-1])

\* ecClient.Put, the test after the collecting loop.
BelowRepairThresholdLE(successfulCount_) == successfulCount_ <= RepairThreshold

BelowRepairThreshold(successfulCount_) == successfulCount_ < RepairThreshold

\* segmentStore.makeRemotePointer: one RemotePiece per non-nil node, its
\* PieceNum the (0-based) index of the node in the list.
RemotePiecesCompact(ns) ==
    LET sel == SelectSeq([i \in 1..Len(ns) |-> i], LAMBDA i : ns[i] # NIL)
    IN  [j \in 1..Len(sel) |-> [PieceNum |-> j - 1, NodeId |-> ns[sel[j]]]]

RemotePieces(ns) ==
    LET sel == SelectSeq([i \in 1..Len(ns) |-> i], LAMBDA i : ns[i] # NIL)
    IN  [j \in 1..Len(sel) |-> [PieceNum |-> sel[j] - 1, NodeId |-> ns[sel[j]]]]

Redundancy ==
    [MinReq |-> RequiredCount, Total |-> TotalCount,
     RepairThreshold |-> RepairThreshold, SuccessThreshold |-> OptimalThreshold]

makeRemotePointer(ns) ==
    [Type |-> "REMOTE",
     Remote |-> <<[Redundancy |-> Redundancy, RemotePieces |-> RemotePieces(ns)]>>]

\* The INLINE pointer built by segmentStore.Put; its Remote field is nil.
InlinePointer == [Type |-> "INLINE", Remote |-> <<>>]

\* The ids of a set of nodes in ascending order.
RECURSIVE SortedSeq(_)
SortedSeq(S) ==
    IF S = {} THEN <<>>
    ELSE LET m == CHOOSE x \in S : \A y \in S : x <= y
         IN  <<m>> \o SortedSeq(S \ {m})

Reverse(s) == [i \in 1..Len(s) |-> s[Len(s) + 1 - i]]

\* ------------------------------------------------------------------------
\* State
\* ------------------------------------------------------------------------

VARIABLES
    \* --- one segmentStore.Put ---
    pc,               \* position of segmentStore.Put / ecClient.Put
    ctxDone,          \* the upload context has been cancelled
    cancelledAt,      \* position at which the context was cancelled ("" if not)
    nodes,            \* node list handed to ecClient.Put
    putState,         \* per index: the piece Put goroutine
    infos,            \* the infos channel (buffered, capacity len(nodes))
    received,         \* iterations of the collecting loop done
    successfulNodes,  \* ecClient.Put's result slice
    successfulCount,
    piece,            \* per index: what the node holds of the segment
    delState,         \* per index: ecClient.Delete's goroutine for the node
    ecErr,            \* how ecClient.Put returned
    pointer,          \* pointer composed by segmentStore.Put (optional)
    putErr,           \* how segmentStore.Put returned
    \* --- pointer service ---
    pointers,         \* path -> optional pointer
    \* --- overlay, repair queue, checker and repairer ---
    overlay,          \* ids of the nodes the overlay cache resolves
    queue,            \* the repair queue of injured segments
    uploads,          \* segment uploads made so far
    lastPass,         \* the checker pass just made: what it examined and enqueued
    lastRepair,       \* the Repair just made: what it asked for and assigned
    \* --- one Retrieve session of the piece store server ---
    rcv,              \* position of the allocation recv goroutine
    rmsg,             \* the message stream.Recv returned to it (optional)
    lastTotal,
    lastAllocation,   \* optional
    totalAllocated,
    snd,              \* position of Retrieve / the data send loop
    length,           \* bytes of the section reader
    used,
    chunk,            \* nextMessageSize of the iteration under way
    retErr,           \* how the session returned
    allocationTracking, \* the throttle
    bwAllocDb,        \* allocations written by WriteBandwidthAllocToDB
    bwUsedDb,         \* amounts written by AddBandwidthUsed
    sent,             \* piece bytes sent to the client
    recvCount,        \* allocation messages received
    maxVerified,      \* largest total of a verified allocation received
    lastValid,        \* last allocation that passed every check (optional)
    sentAtLower,      \* sent, when a lower allocation was first received (optional)
    lastConsume,      \* what the last ConsumeOrWait returned (optional)
    \* --- one Store session of the piece store server ---
    spc,              \* position of Store / storeData
    pieceFile,        \* the piece file on disk: its size (optional)
    ttlRow,           \* the TTL row of the piece id: its size (optional)
    bwLeft,
    spaceLeft,
    sofar,            \* StreamReader.sofar
    bandwidthAllocation, \* StreamReader.bandwidthAllocation (optional)
    currentTotal,     \* StreamReader.currentTotal
    storeErr,         \* how the session returned
    storeAllocDb,     \* what WriteBandwidthAllocToDB was given and wrote
    storeBwUsedDb,    \* amounts written by AddBandwidthUsed
    storeMsgs,        \* messages received by the StreamReader
    verifiedAllocs,   \* the verified allocations received, in order
    deleteFailed,     \* a deleteByID of the session returned an error
    \* --- one MultipartStream of the gateway ---
    mparts,           \* stream.parts
    mNextID,          \* stream.nextID
    mNextNumber,      \* stream.nextNumber
    mClosed,          \* stream.closed
    mFinished,        \* stream.finished
    mErr,             \* stream.err
    partLeft,         \* per part Number: bytes its Reader has not yet returned
    partDone,         \* per part Number: the Done channel
    rd,               \* position of the thread that reads the stream
    curPart,          \* the part picked by the Read under way (optional)
    readOut,          \* the bytes returned by the Reads so far
    addOrder,         \* the ids of the parts added, in the order of the calls
    addedAtClose,     \* the ids added when Close was first called (optional)
    abortPending,     \* the Numbers of the parts waiting when Abort was called (optional)
    \* --- the connection pool, for one node id ---
    poolItems,        \* pool.items[id]: the Conn of the entry (optional)
    conns,            \* the Conn structs created so far
    caller,           \* per thread: position in Dial, its conn, what Dial returned
    dialCalls,        \* Dial calls started
    disconnects,      \* Disconnect calls made
    disconnected,     \* the Conns that were the entry when Disconnect was called
    \* pointerdb.Server
    pdb,              \* s.DB: path -> optional stored pointer
    lastCall,         \* the last RPC: its name, API key, status, the DB before it
    \* overlay client and overlay cache
    lastLookup,       \* the last BulkLookup: its ids, the cache, its answer
    \* kademlia.RoutingTable
    replacementCache, \* rt.replacementCache: k-bucket id -> nodes
    rcInserted,       \* per k-bucket: the nodes inserted so far, in order
    \* audit.Cursor
    lastPath,         \* cursor.lastPath
    lastNext,         \* the last NextStripe: its listing and what it returned
    \* audit.Verifier
    lastVerify,       \* the last verify: the outcomes of its downloads, its report
    \* agreementsender.AgreementSender
    agreementsDb,     \* the bandwidth agreements in the psdb of the storage node
    written,          \* how many agreements have been stored so far
    satUp,            \* satellite -> it can be looked up, dialed and streamed to
    dbUp,             \* the psdb answers without error
    tickPc,           \* the ticker goroutine: "wait" for a tick or "push" groups
    tickGroups,       \* the groups it still has to push
    chanC,            \* the channel c (capacity 1)
    senders,          \* the goroutines started for the groups
    failedOnce,       \* the agreements with a failed attempt (lookup, dial, open, Send)
    \* eestream.DecodeReaders
    readers,          \* piece reader -> what it does and where it stands
    decodeResult,     \* "idle", "reading", "ok" or "error"
    decoded,          \* what the read yielded
    \* miniogw.MultipartUploads
    mu,               \* uploads.mu: the goroutine holding Lock, those holding RLock
    pending,          \* uploads.pending: upload id -> its location, NIL when absent
    lastID,           \* uploads.lastID
    uploadsPc,        \* goroutine -> the call it is in and where it stands
    streamAborted,    \* the uploads whose stream a Create has aborted
    mapFault          \* the runtime ended the program on a concurrent map access

uploadVars == <<pc, ctxDone, cancelledAt, nodes, putState, infos, received,
                successfulNodes, successfulCount, piece, delState, ecErr,
                pointer, putErr>>

repairVars == <<overlay, queue, uploads, lastPass, lastRepair>>

retrieveVars == <<rcv, rmsg, lastTotal, lastAllocation, totalAllocated, snd,
                  length, used, chunk, retErr, allocationTracking, bwAllocDb,
                  bwUsedDb, sent, recvCount, maxVerified, lastValid,
                  sentAtLower, lastConsume>>

storeVars == <<spc, pieceFile, ttlRow, bwLeft, spaceLeft, sofar,
               bandwidthAllocation, currentTotal, storeErr, storeAllocDb,
               storeBwUsedDb, storeMsgs, verifiedAllocs, deleteFailed>>

multipartVars == <<mparts, mNextID, mNextNumber, mClosed, mFinished, mErr,
                   partLeft, partDone, rd, curPart, readOut, addOrder,
                   addedAtClose, abortPending>>

poolVars == <<poolItems, conns, caller, dialCalls, disconnects, disconnected>>

pointerdbVars == <<pdb, lastCall>>

\* The services of the satellite and of the storage node.
cursorVars == <<lastPath, lastNext>>

verifierVars == <<lastVerify>>

lookupVars == <<lastLookup>>

routingVars == <<replacementCache, rcInserted>>

registryVars == <<mu, pending, lastID, uploadsPc, streamAborted, mapFault>>

senderVars == <<agreementsDb, written, satUp, dbUp, tickPc, tickGroups, chanC,
                senders, failedOnce>>

decodeVars == <<readers, decodeResult, decoded>>

serviceVars == <<pointerdbVars, cursorVars, verifierVars, senderVars,
                 decodeVars, lookupVars, routingVars, registryVars>>

\* The sessions of the piece store server and of the gateway, and the
\* connection pool.
sessionVars == <<retrieveVars, storeVars, multipartVars, poolVars,
                 serviceVars>>

\* The state that a segmentStore.Put in SpecUpload leaves alone.
notUploadVars == <<repairVars, sessionVars>>

\* The state that checker, repairer and overlay leave alone.
notRepairVars == <<uploadVars, sessionVars>>

\* The state that a Retrieve session leaves alone.
notRetrieveVars == <<uploadVars, pointers, repairVars, storeVars,
                     multipartVars, poolVars, serviceVars>>

\* The state that a Store session leaves alone.
notStoreVars == <<uploadVars, pointers, repairVars, retrieveVars,
                  multipartVars, poolVars, serviceVars>>

\* The state that a MultipartStream leaves alone.
notMultipartVars == <<uploadVars, pointers, repairVars, retrieveVars,
                      storeVars, poolVars, serviceVars>>

\* The state that the connection pool leaves alone.
notPoolVars == <<uploadVars, pointers, repairVars, retrieveVars, storeVars,
                 multipartVars, serviceVars>>

\* The state that the pointer service leaves alone.
notPointerdbVars == <<uploadVars, pointers, repairVars, retrieveVars,
                      storeVars, multipartVars, poolVars, cursorVars,
                      verifierVars, senderVars, decodeVars, lookupVars, routingVars, registryVars>>

\* The state that the audit cursor and the pointer DB under it leave alone.
notCursorVars == <<uploadVars, pointers, repairVars, retrieveVars,
                   storeVars, multipartVars, poolVars, verifierVars,
                   senderVars, decodeVars, lookupVars, routingVars, registryVars>>

\* The state that the audit verifier leaves alone.
notVerifierVars == <<uploadVars, pointers, repairVars, retrieveVars,
                     storeVars, multipartVars, poolVars, pointerdbVars,
                     cursorVars, senderVars, decodeVars, lookupVars, routingVars, registryVars>>

\* The state that the agreement sender leaves alone.
notSenderVars == <<uploadVars, pointers, repairVars, retrieveVars,
                   storeVars, multipartVars, poolVars, pointerdbVars,
                   cursorVars, verifierVars, decodeVars, lookupVars, routingVars, registryVars>>

\* The state that a read through the erasure decoder leaves alone.
notDecodeVars == <<uploadVars, pointers, repairVars, retrieveVars,
                   storeVars, multipartVars, poolVars, pointerdbVars,
                   cursorVars, verifierVars, senderVars, lookupVars, routingVars, registryVars>>

vars == <<uploadVars, pointers, repairVars, sessionVars>>

\* ------------------------------------------------------------------------
\* Initial state
\* ------------------------------------------------------------------------

\* No checker pass and no Repair has just been made.
NoPass == [examined |-> {}, enqueued |-> {}, fault |-> "none"]

NoRepair == [called |-> FALSE, err |-> "none", path |-> "", originalNodes |-> <<>>,
             amount |-> 0, excluded |-> {}, repairNodesList |-> <<>>,
             uploaded |-> {}, before |-> <<>>]

\* sync2.NewThrottle.
NewThrottle == [available |-> 0, errs |-> <<>>]

\* No RPC of the pointer service has been made.
NoList == [listed |-> FALSE, StartAfter |-> <<>>, EndBefore |-> <<>>,
           Prefix |-> <<>>, Items |-> <<>>, More |-> FALSE]
NoCall == [rpc |-> "none", key |-> "none", status |-> "none",
           before |-> [p \in PointerPaths |-> <<>>], list |-> NoList]

\* No BulkLookup has been made.
\* A goroutine outside the MultipartUploads.
NoRegistryCall == [op |-> "none", pc |-> "idle", loc |-> NIL, id |-> NIL]

NoLookup == [called |-> FALSE, ids |-> <<>>, cache |-> {}, failed |-> 0,
             nodes |-> <<>>]

\* No NextStripe has been called.
NoNext == [called |-> FALSE, listed |-> FALSE, startAfter |-> StartPath,
           page |-> <<>>, more |-> FALSE, result |-> "none"]

\* No stripe has been verified.
NoVerify == [called |-> FALSE, outcome |-> <<>>, err |-> FALSE,
             verifiedNodes |-> <<>>]

\* A goroutine slot of the agreement sender that is not running.
IdleSender == [pc |-> "idle", satellite |-> 0, todo |-> <<>>, broken |-> FALSE,
               carried |-> {}]

Init ==
    /\ pc = "idle"
    /\ ctxDone = FALSE
    /\ cancelledAt = ""
    /\ nodes = <<>>
    /\ putState = [i \in Indices |-> "idle"]
    /\ infos = <<>>
    /\ received = 0
    /\ successfulNodes = [i \in Indices |-> NIL]
    /\ successfulCount = 0
    /\ piece = [i \in Indices |-> "none"]
    /\ delState = [i \in Indices |-> "none"]
    /\ ecErr = "none"
    /\ pointer = <<>>
    /\ putErr = "none"
    /\ pointers = [p \in Paths |-> <<>>]
    /\ overlay = Nodes
    /\ queue = <<>>
    /\ uploads = 0
    /\ lastPass = NoPass
    /\ lastRepair = NoRepair
    /\ rcv = "idle"
    /\ rmsg = <<>>
    /\ lastTotal = 0
    /\ lastAllocation = <<>>
    /\ totalAllocated = 0
    /\ snd = "idle"
    /\ length = 0
    /\ used = 0
    /\ chunk = 0
    /\ retErr = "none"
    /\ allocationTracking = NewThrottle
    /\ bwAllocDb = <<>>
    /\ bwUsedDb = <<>>
    /\ sent = 0
    /\ recvCount = 0
    /\ maxVerified = 0
    /\ lastValid = <<>>
    /\ sentAtLower = <<>>
    /\ lastConsume = <<>>
    /\ spc = "idle"
    /\ pieceFile = <<>>
    /\ ttlRow = <<>>
    /\ bwLeft = 0
    /\ spaceLeft = 0
    /\ sofar = 0
    /\ bandwidthAllocation = <<>>
    /\ currentTotal = 0
    /\ storeErr = "none"
    /\ storeAllocDb = <<>>
    /\ storeBwUsedDb = <<>>
    /\ storeMsgs = 0
    /\ verifiedAllocs = <<>>
    /\ deleteFailed = FALSE
    /\ mparts = <<>>
    /\ mNextID = 1
    /\ mNextNumber = 0
    /\ mClosed = FALSE
    /\ mFinished = FALSE
    /\ mErr = "nil"
    /\ partLeft = [k \in 0..(MaxAdds - 1) |-> 0]
    /\ partDone = [k \in 0..(MaxAdds - 1) |-> "none"]
    /\ rd = "read"
    /\ curPart = <<>>
    /\ readOut = <<>>
    /\ addOrder = <<>>
    /\ addedAtClose = <<>>
    /\ abortPending = <<>>
    /\ poolItems = <<>>
    /\ conns = <<>>
    /\ caller = [t \in Callers |-> [pc |-> "idle", conn |-> 0, result |-> "none"]]
    /\ dialCalls = 0
    /\ disconnects = 0
    /\ disconnected = {}
    /\ pdb = [p \in PointerPaths |-> <<>>]
    /\ lastPath = StartPath
    /\ lastNext = NoNext
    /\ lastVerify = NoVerify
    /\ agreementsDb = {}
    /\ written = 0
    /\ satUp = [s \in Satellites |-> TRUE]
    /\ dbUp = TRUE
    /\ tickPc = "wait"
    /\ tickGroups = <<>>
    /\ chanC = <<>>
    /\ senders = [i \in 1..MaxSenders |-> IdleSender]
    /\ failedOnce = {}
    /\ readers = [i \in Indices |-> [behaviour |-> "good", state |-> "idle"]]
    /\ decodeResult = "idle"
    /\ decoded = "none"
    /\ lastLookup = NoLookup
    /\ replacementCache = [b \in KadBuckets |-> <<>>]
    /\ rcInserted = [b \in KadBuckets |-> <<>>]
    /\ mu = [writer |-> NIL, readers |-> {}]
    /\ pending = [id \in UploadIds |-> NIL]
    /\ lastID = 0
    /\ uploadsPc = [g \in Goroutines |-> NoRegistryCall]
    /\ streamAborted = {}
    /\ mapFault = FALSE
    /\ lastCall = NoCall

\* ------------------------------------------------------------------------
\* segmentStore.Put (SpecUpload)
\* ------------------------------------------------------------------------

\* Overlay Choose: amount distinct nodes of the cache, none of them
\* excluded; no answer (an error) when the cache has too few.  The answer
\* followed is the amount lowest ids among the candidates, highest first.
ChooseAnswers(amount, excluded) ==
    LET c == SortedSeq(overlay \ excluded)
    IN  IF Len(c) < amount THEN {} ELSE {Reverse(SubSeq(c, 1, amount))}

\* The stream is not larger than the threshold: an INLINE pointer is
\* composed, no node is contacted.
PutInline ==
    /\ pc = "idle"
    /\ \E segmentInfoOk \in BOOLEAN :
        IF segmentInfoOk
        THEN /\ pointer' = <<InlinePointer>>
             /\ pc' = "pdbPut"
             /\ putErr' = putErr
        ELSE /\ pc' = "returned"
             /\ putErr' = "segmentInfo"
             /\ pointer' = pointer
    /\ UNCHANGED <<ctxDone, cancelledAt, nodes, putState, infos, received,
                   successfulNodes, successfulCount, piece, delState, ecErr,
                   pointers>>
    /\ UNCHANGED notUploadVars

\* overlay Choose fails: segmentStore.Put returns before ecClient.Put.
PutChooseFails ==
    /\ pc = "idle"
    /\ pc' = "returned"
    /\ putErr' = "choose"
    /\ UNCHANGED <<ctxDone, cancelledAt, nodes, putState, infos, received,
                   successfulNodes, successfulCount, piece, delState, ecErr,
                   pointer, pointers>>
    /\ UNCHANGED notUploadVars

\* Choose answers with ns; ecClient.Put checks the list and starts one
\* goroutine per node.
PutRemoteStart ==
    /\ pc = "idle"
    /\ \E ns \in ChooseAnswers(TotalCount, {}) :
        /\ nodes' = ns
        /\ IF Len(ns) # TotalCount
           THEN /\ ecErr' = "count"
                /\ putErr' = "ecPut"
                /\ pc' = "returned"
                /\ putState' = putState
           ELSE IF ~unique(ns)
           THEN /\ ecErr' = "duplicate"
                /\ putErr' = "ecPut"
                /\ pc' = "returned"
                /\ putState' = putState
           ELSE /\ putState' = [i \in Indices |-> "running"]
                /\ pc' = "collect"
                /\ UNCHANGED <<ecErr, putErr>>
    /\ UNCHANGED <<ctxDone, cancelledAt, infos, received, successfulNodes,
                   successfulCount, piece, delState, pointer, pointers>>
    /\ UNCHANGED notUploadVars

\* The goroutine of node i finishes and sends its info: the dial failed
\* ("dialerr"), or ps.Put returned nil ("ok") or an error, io.ErrUnexpectedEOF
\* included ("err"); an interrupted transfer leaves a partial piece.
PutOutcomes == {"ok", "dialerr", "err"}

PiecePut(i) ==
    /\ putState[i] = "running"
    /\ \E out \in PutOutcomes :
        /\ putState' = [putState EXCEPT ![i] = out]
        /\ infos' = Append(infos, [i |-> i, err |-> (out # "ok")])
        /\ \/ /\ out = "ok"
              /\ piece' = [piece EXCEPT ![i] = "stored"]
           \/ /\ out = "err"
              /\ piece' = [piece EXCEPT ![i] = "partial"]
           \/ /\ out = "dialerr"
              /\ piece' = piece
    /\ UNCHANGED <<pc, ctxDone, cancelledAt, nodes, received, successfulNodes,
                   successfulCount, delState, ecErr, pointer, putErr, pointers>>
    /\ UNCHANGED notUploadVars

\* One iteration of "for range nodes { info := <-infos ... }".
Collect ==
    /\ pc = "collect"
    /\ received < Len(nodes)
    /\ infos # <<>>
    /\ LET info == Head(infos) IN
        /\ infos' = Tail(infos)
        /\ received' = received + 1
        /\ IF ~info.err
           THEN /\ successfulNodes' =
                       [successfulNodes EXCEPT ![info.i] = nodes[info.i]]
                /\ successfulCount' = successfulCount + 1
           ELSE UNCHANGED <<successfulNodes, successfulCount>>
    /\ UNCHANGED <<pc, ctxDone, cancelledAt, nodes, putState, piece, delState,
                   ecErr, pointer, putErr, pointers>>
    /\ UNCHANGED notUploadVars

\* The deferred function of ecClient.Put: does it see ctx.Done()?
DeferSeesDoneNever(done) == FALSE

DeferSeesDone(done) == done

\* ecClient.Delete on the node list: per non-nil node a goroutine dials and
\* calls ps.Delete; Delete returns when all have reported.
DeleteOutcomes == {"deleted", "dialerr", "err"}

\* ecClient.Put returns: the threshold test, then the deferred clean-up;
\* segmentStore.Put goes on to segmentInfo and makeRemotePointer.
ECPutReturn ==
    /\ pc = "collect"
    /\ received = Len(nodes)
    /\ LET below == BelowRepairThreshold(successfulCount)
           seen  == DeferSeesDone(ctxDone)
       IN
        /\ IF seen
           THEN \E outs \in [Indices -> DeleteOutcomes] :
                  /\ delState' = [i \in Indices |->
                                    IF nodes[i] = NIL THEN "nil" ELSE outs[i]]
                  /\ piece' = [i \in Indices |->
                                 IF nodes[i] # NIL /\ outs[i] = "deleted"
                                 THEN "none" ELSE piece[i]]
           ELSE UNCHANGED <<delState, piece>>
        /\ ecErr' = IF seen THEN "cancelled"
                    ELSE IF below THEN "threshold" ELSE "ok"
        /\ IF seen \/ below
           THEN /\ pc' = "returned"
                /\ putErr' = "ecPut"
                /\ pointer' = pointer
           ELSE \E segmentInfoOk \in BOOLEAN :
                  IF segmentInfoOk
                  THEN /\ pointer' = <<makeRemotePointer(successfulNodes)>>
                       /\ pc' = "pdbPut"
                       /\ putErr' = putErr
                  ELSE /\ pc' = "returned"
                       /\ putErr' = "segmentInfo"
                       /\ pointer' = pointer
    /\ UNCHANGED <<ctxDone, cancelledAt, nodes, putState, infos, received,
                   successfulNodes, successfulCount, pointers>>
    /\ UNCHANGED notUploadVars

\* s.pdb.Put(ctx, path, pointer): the pointer is written, or the call
\* fails (it cannot succeed on a cancelled context) and Put returns the
\* error.  After the write Put reads the segment's metadata back (s.Meta),
\* which may fail too.
PointerPut ==
    /\ pc = "pdbPut"
    /\ \E path \in Paths, ok \in BOOLEAN, metaOk \in BOOLEAN :
        IF ok /\ ~ctxDone
        THEN /\ pointers' = [pointers EXCEPT ![path] = pointer]
             /\ putErr' = IF metaOk THEN "nil" ELSE "meta"
        ELSE /\ putErr' = "pdbPut"
             /\ pointers' = pointers
    /\ pc' = "returned"
    /\ UNCHANGED <<ctxDone, cancelledAt, nodes, putState, infos, received,
                   successfulNodes, successfulCount, piece, delState, ecErr,
                   pointer>>
    /\ UNCHANGED notUploadVars

\* The caller cancels the upload context while Put is running.
Cancel ==
    /\ pc \in {"collect", "pdbPut"}
    /\ ~ctxDone
    /\ ctxDone' = TRUE
    /\ cancelledAt' = pc
    /\ UNCHANGED <<pc, nodes, putState, infos, received, successfulNodes,
                   successfulCount, piece, delState, ecErr, pointer, putErr,
                   pointers>>
    /\ UNCHANGED notUploadVars

NextUpload ==
    \/ PutInline
    \/ PutChooseFails
    \/ PutRemoteStart
    \/ \E i \in Indices : PiecePut(i)
    \/ Collect
    \/ ECPutReturn
    \/ PointerPut
    \/ Cancel

SpecUpload == Init /\ [][NextUpload]_vars

\* ------------------------------------------------------------------------
\* Overlay, pointer store, checker and repairer (SpecRepair)
\* ------------------------------------------------------------------------

\* Overlay.BulkLookup over the cache's GetAll: one slot per id, nil for an
\* id the cache does not resolve.
BulkLookup(ids) ==
    [i \in 1..Len(ids) |-> IF ids[i] \in overlay THEN ids[i] ELSE NIL]

\* overlaycache.Get: the zero id, a node the cache does not hold, a failed
\* query or conversion (dbErr), the node.
CacheGet(id, dbErr) ==
    IF id = NIL THEN [node |-> NIL, err |-> "ErrEmptyNode"]
    ELSE IF id \notin overlay THEN [node |-> NIL, err |-> "ErrNodeNotFound"]
    ELSE IF dbErr THEN [node |-> NIL, err |-> "db"]
    ELSE [node |-> id, err |-> "nil"]

\* The found nodes are appended one after the other.
GetAllAppend(ids, failed) ==
    LET found == SelectSeq([i \in 1..Len(ids) |-> i],
                           LAMBDA i : CacheGet(ids[i], i = failed).err = "nil")
    IN  [j \in 1..Len(found) |-> CacheGet(ids[found[j]], FALSE).node]

\* overlaycache.GetAll: a slot per id, left nil when Get returns an error;
\* failed is the position whose Get fails in the database (0: none).
GetAll(ids, failed) ==
    [i \in 1..Len(ids) |->
        IF CacheGet(ids[i], i = failed).err # "nil" THEN NIL
        ELSE CacheGet(ids[i], i = failed).node]

\* The sequences of ids of a LookupRequests message.
LookupRequests == UNION {[1..m -> LookupIds] : m \in 1..MaxLookupIds}

\* Overlay.BulkLookup of the client: one request per id, the overlay's
\* answer from GetAll, one node per response.
OverlayBulkLookup ==
    \E ids \in LookupRequests :
        \E failed \in 0..Len(ids) :
            LET reqs  == [i \in 1..Len(ids) |-> [NodeID |-> ids[i]]]
                found == GetAll([i \in 1..Len(reqs) |-> reqs[i].NodeID], failed)
                resp  == [i \in 1..Len(found) |-> [Node |-> found[i]]]
            IN  /\ lastLookup' = [called |-> TRUE, ids |-> ids, cache |-> overlay,
                                  failed |-> failed,
                                  nodes |-> [i \in 1..Len(resp) |-> resp[i].Node]]
                /\ UNCHANGED <<uploadVars, pointers, repairVars, retrieveVars,
                               storeVars, multipartVars, poolVars, pointerdbVars,
                               cursorVars, verifierVars, senderVars, decodeVars,
                               routingVars, registryVars>>

\* ecClient.Put taken as one step: okIdx are the indices whose piece Put
\* returned nil, cancelled tells whether the context is done when Put
\* returns.  The goroutine of a nil node drains its reader and reports nil.
ECPut(ns, okIdx, cancelled) ==
    IF Len(ns) # TotalCount
    THEN [err |-> "count", successfulNodes |-> <<>>]
    ELSE IF ~unique(ns)
    THEN [err |-> "duplicate", successfulNodes |-> <<>>]
    ELSE LET good  == {i \in 1..Len(ns) : ns[i] = NIL \/ i \in okIdx}
             succ  == [i \in 1..Len(ns) |-> IF i \in good THEN ns[i] ELSE NIL]
         IN  [err |-> IF DeferSeesDone(cancelled) THEN "cancelled"
                      ELSE IF BelowRepairThreshold(Cardinality(good))
                      THEN "threshold" ELSE "ok",
              successfulNodes |-> succ]

\* segmentStore.Put taken as one step.
UploadSegment ==
    /\ uploads < MaxUploads
    /\ uploads' = uploads + 1
    /\ \E path \in Paths :
        \/ \* inline segment
           /\ pointers' = [pointers EXCEPT ![path] = <<InlinePointer>>]
        \/ \* remote segment
           /\ \E ns \in ChooseAnswers(TotalCount, {}),
                 okIdx \in SUBSET Indices, cancelled \in BOOLEAN :
                LET res == ECPut(ns, okIdx, cancelled) IN
                IF res.err = "ok"
                THEN pointers' = [pointers EXCEPT
                                    ![path] = <<makeRemotePointer(res.successfulNodes)>>]
                ELSE pointers' = pointers
        \/ \* Choose, segmentInfo or the pointer write fails
           /\ pointers' = pointers
    /\ lastPass' = NoPass
    /\ lastRepair' = NoRepair
    /\ UNCHANGED <<overlay, queue>>
    /\ UNCHANGED notRepairVars

\* A node drops out of the overlay cache; it stays out.
NodeOffline(n) ==
    /\ n \in overlay
    /\ Cardinality(Nodes \ overlay) < MaxOffline
    /\ overlay' = overlay \ {n}
    /\ lastPass' = NoPass
    /\ lastRepair' = NoRepair
    /\ UNCHANGED <<pointers, queue, uploads>>
    /\ UNCHANGED notRepairVars

NextOverlay ==
    \/ OverlayBulkLookup
    \/ \E n \in LookupIds \ {NIL} : NodeOffline(n)

SpecOverlay == Init /\ [][NextOverlay]_vars

\* checker.offlineNodes: the (0-based) positions in the id list whose
\* lookup answered nil.
offlineNodes(nodeIDs) ==
    LET ns  == BulkLookup(nodeIDs)
        idx == SelectSeq([i \in 1..Len(ns) |-> i], LAMBDA i : ns[i] = NIL)
    IN  [j \in 1..Len(idx) |-> idx[j] - 1]

\* The test of IdentifyInjuredSegments.
IsInjuredLE(numHealthy, repairThreshold) == numHealthy <= repairThreshold

IsInjured(numHealthy, repairThreshold) == numHealthy < repairThreshold

\* queue.Enqueue: first in, first out, one entry per path.
EnqueueAlways(q, seg) == Append(q, seg)

Enqueue(q, seg) ==
    IF \E i \in 1..Len(q) : q[i].Path = seg.Path THEN q ELSE Append(q, seg)

\* The iterator loop of IdentifyInjuredSegments over the items left, at
\* most lim of them.  The loop faults on a pointer without Remote and
\* returns on a failed lookup or a failed Enqueue (errAt counts the items
\* down to the one where errKind happens).  examined are the items whose
\* iteration ran to its end.
RECURSIVE CheckItems(_, _, _, _, _)
CheckItems(items, lim, errAt, errKind, acc) ==
    IF lim <= 0 \/ items = <<>> THEN acc
    ELSE LET path    == Head(items)
             ptr     == pointers[path][1]
         IN
         IF ptr.Remote = <<>>
         THEN [acc EXCEPT !.fault = "nil Remote"]
         ELSE IF errAt = 1 /\ errKind = "lookup"
         THEN [acc EXCEPT !.fault = "lookup error"]
         ELSE
         LET pieces  == ptr.Remote[1].RemotePieces
             nodeIDs == [i \in 1..Len(pieces) |-> pieces[i].NodeId]
             missingPieces == offlineNodes(nodeIDs)
             numHealthy == Len(nodeIDs) - Len(missingPieces)
             seg == [Path |-> path, LostPieces |-> missingPieces]
             injured == IsInjured(numHealthy, ptr.Remote[1].Redundancy.RepairThreshold)
         IN  IF errAt = 1 /\ errKind = "enqueue" /\ injured
             THEN [acc EXCEPT !.fault = "enqueue error"]
             ELSE
             CheckItems(Tail(items), lim - 1, errAt - 1, errKind,
                 [queue    |-> IF injured THEN Enqueue(acc.queue, seg) ELSE acc.queue,
                  examined |-> acc.examined \cup {path},
                  enqueued |-> IF injured THEN acc.enqueued \cup {seg} ELSE acc.enqueued,
                  fault    |-> acc.fault])

\* The limit of a pass: c.limit, or LookupLimit when it is not positive or
\* too large.
PassLimit ==
    IF CheckerLimit <= 0 \/ CheckerLimit > LookupLimit THEN LookupLimit ELSE CheckerLimit

\* One checker pass over the pointer store.
IdentifyInjuredSegments ==
    /\ \E errAt \in 0..Len(PathSeq), errKind \in {"lookup", "enqueue"} :
        LET items == SelectSeq(PathSeq, LAMBDA p : pointers[p] # <<>>)
            res   == CheckItems(items, PassLimit, errAt, errKind,
                                [queue |-> queue, examined |-> {}, enqueued |-> {},
                                 fault |-> "none"])
        IN  /\ queue' = res.queue
            /\ lastPass' = [examined |-> res.examined, enqueued |-> res.enqueued,
                            fault |-> res.fault]
    /\ lastRepair' = NoRepair
    /\ UNCHANGED <<pointers, overlay, uploads>>
    /\ UNCHANGED notRepairVars

\* segmentStore.lookupNodes: the nodes of the pointer's pieces, indexed by
\* piece number; nil where the pointer has no piece or the node is unknown.
lookupNodes(seg) ==
    LET pieces  == seg.RemotePieces
        nodeIds == [i \in 1..Len(pieces) |-> pieces[i].NodeId]
        n       == BulkLookup(nodeIds)
    IN  [j \in 1..seg.Redundancy.Total |->
            LET hits == {i \in 1..Len(pieces) : pieces[i].PieceNum = j - 1}
            IN  IF hits = {} THEN NIL
                ELSE n[CHOOSE i \in hits : \A h \in hits : h <= i]]

\* Repair, the count of nodes to ask for: the nil nodes, plus one for every
\* index that occurs in lostPieces.
TotalNilNodesOnce(originalNodes, lostPieces) ==
    Cardinality({j \in 1..Len(originalNodes) : originalNodes[j] = NIL})

TotalNilNodes(originalNodes, lostPieces) ==
      Cardinality({j \in 1..Len(originalNodes) : originalNodes[j] = NIL})
    + Cardinality({jl \in (1..Len(originalNodes)) \X (1..Len(lostPieces)) :
                      jl[1] - 1 = lostPieces[jl[2]]})

\* Repair, the ids to exclude: those of the nodes found.
ExcludeNodeIDsNone(originalNodes) == {}

ExcludeNodeIDs(originalNodes) ==
    {originalNodes[j] : j \in 1..Len(originalNodes)} \ {NIL}

\* Repair, the list handed to ecClient.Put: a new node at every nil
\* position, taken from the end of newNodes backwards.
RepairNodesList(originalNodes, newNodes) ==
    [j \in 1..Len(originalNodes) |->
        IF originalNodes[j] = NIL
        THEN newNodes[Len(newNodes) + 1
                      - Cardinality({h \in 1..j : originalNodes[h] = NIL})]
        ELSE NIL]

\* The length of the list, nil nodes counted.
validCountLen(ns) == Len(ns)

\* ecclient.validCount.
validCount(ns) == Cardinality({i \in 1..Len(ns) : ns[i] # NIL})

\* Repair, the merge of the successful nodes into the original list.
MergeNodes(originalNodes, succ) ==
    [i \in 1..Len(originalNodes) |->
        IF originalNodes[i] = NIL THEN succ[i] ELSE originalNodes[i]]

\* segmentStore.Repair of the segment at path with the given lostPieces.
RepairSegment(path, lostPieces) ==
    LET failed(e) == /\ lastRepair' = [NoRepair EXCEPT !.called = TRUE,
                                           !.err = e, !.path = path,
                                           !.before = pointers[path]]
                     /\ pointers' = pointers
    IN
       IF pointers[path] = <<>> THEN failed("get")
       ELSE IF pointers[path][1].Type # "REMOTE" THEN failed("inline")
       ELSE
       LET seg            == pointers[path][1].Remote[1]
           originalNodes  == lookupNodes(seg)
           excludeNodeIDs == ExcludeNodeIDs(originalNodes)
           totalNilNodes  == TotalNilNodes(originalNodes, lostPieces)
           record(e, rl, up) ==
                             [called |-> TRUE, err |-> e, path |-> path,
                              originalNodes |-> originalNodes,
                              amount |-> totalNilNodes,
                              excluded |-> excludeNodeIDs,
                              repairNodesList |-> rl,
                              uploaded |-> up, before |-> pointers[path]]
       IN
       IF ChooseAnswers(totalNilNodes, excludeNodeIDs) = {}
       THEN /\ lastRepair' = record("choose", <<>>, {})
            /\ pointers' = pointers
       ELSE \E newNodes \in ChooseAnswers(totalNilNodes, excludeNodeIDs) :
            LET repairNodesList == RepairNodesList(originalNodes, newNodes) IN
            IF validCount(originalNodes) < seg.Redundancy.MinReq
            THEN /\ lastRepair' = record("ecGet", repairNodesList, {})
                 /\ pointers' = pointers
            ELSE \E okIdx \in SUBSET {i \in Indices : repairNodesList[i] # NIL},
                    rangeOk \in BOOLEAN, cancelled \in BOOLEAN, pdbOk \in BOOLEAN :
                 LET res == ECPut(repairNodesList, okIdx, cancelled) IN
                 IF ~rangeOk
                 THEN /\ lastRepair' = record("range", repairNodesList, {})
                      /\ pointers' = pointers
                 ELSE IF res.err # "ok"
                 THEN /\ lastRepair' = record("ecPut", repairNodesList, okIdx)
                      /\ pointers' = pointers
                 ELSE IF ~pdbOk
                 THEN /\ lastRepair' = record("pdbPut", repairNodesList, okIdx)
                      /\ pointers' = pointers
                 ELSE /\ lastRepair' = record("nil", repairNodesList, okIdx)
                      /\ pointers' = [pointers EXCEPT ![path] =
                            <<makeRemotePointer(
                                MergeNodes(originalNodes, res.successfulNodes))>>]

\* The repairer takes the oldest entry of the queue and runs
\* segmentStore.Repair on it.
Repair ==
    /\ queue # <<>>
    /\ queue' = Tail(queue)
    /\ RepairSegment(Head(queue).Path, Head(queue).LostPieces)
    /\ lastPass' = NoPass
    /\ UNCHANGED <<overlay, uploads>>
    /\ UNCHANGED notRepairVars

\* The lostPieces a caller of Repair passes: none, or one piece number.
LostPiecesInputs == {<<>>} \cup {<<i - 1>> : i \in Indices}

\* A caller runs segmentStore.Repair on a path of its choice.
RepairCall ==
    /\ \E path \in Paths, lostPieces \in LostPiecesInputs :
          RepairSegment(path, lostPieces)
    /\ lastPass' = NoPass
    /\ UNCHANGED <<overlay, uploads, queue>>
    /\ UNCHANGED notRepairVars

NextRepairCall ==
    \/ UploadSegment /\ uploads = 0
    \/ \E n \in Nodes : NodeOffline(n)
    \/ RepairCall

SpecRepairCall == Init /\ [][NextRepairCall]_vars

NextRepair ==
    \/ UploadSegment
    \/ \E n \in Nodes : NodeOffline(n)
    \/ IdentifyInjuredSegments
    \/ Repair

SpecRepair == Init /\ [][NextRepair]_vars

\* ------------------------------------------------------------------------
\* Retrieve session of the piece store server (SpecRetrieve)
\* ------------------------------------------------------------------------

\* Throttle.Fail: the throttle keeps the error; a failed throttle stays
\* failed.
ThrottleFail(th, e) ==
    IF \E i \in 1..Len(th.errs) : th.errs[i] = e THEN th
    ELSE [th EXCEPT !.errs = Append(@, e)]

\* Throttle.Produce: adds tokens, or answers the error of a failed
\* throttle.
ThrottleProduce(th, n) ==
    IF th.errs # <<>>
    THEN [th |-> th, err |-> th.errs]
    ELSE [th |-> [th EXCEPT !.available = @ + n], err |-> <<>>]

\* Throttle.ConsumeOrWait returns when the throttle has failed or holds
\* tokens.
ConsumeReady(th) == th.errs # <<>> \/ th.available > 0

\* Throttle.ConsumeOrWait: the error of a failed throttle and no tokens,
\* otherwise min(available, maxAmount) tokens.
ThrottleConsumeOrWaitGrantFirst(th, maxAmount) ==
    LET n == IF th.available > maxAmount THEN maxAmount ELSE th.available
    IN  [th |-> [th EXCEPT !.available = @ - n], n |-> n, err |-> th.errs]

ThrottleConsumeOrWait(th, maxAmount) ==
    IF th.errs # <<>>
    THEN [th |-> th, n |-> 0, err |-> th.errs]
    ELSE LET n == IF th.available > maxAmount THEN maxAmount ELSE th.available
         IN  [th |-> [th EXCEPT !.available = @ - n], n |-> n, err |-> <<>>]

\* What the checks of the recv loop find in a message: the data does not
\* unmarshal, the signature is wrong, the payer allocation is missing or
\* does not verify, or all is well.
AllocChecks == {"ok", "baddata", "badsig", "nopayer", "badpayer"}

\* The loop condition of the data send loop.
SendLoop(used_) == IF used_ < length THEN "consume" ELSE "finish"

\* The deferred function of the recv goroutine: the last allocation, if
\* there is one, is written to the database (an error is only logged).
DeferWriteAlloc(alloc, dbOk) ==
    IF alloc = <<>> \/ ~dbOk THEN bwAllocDb ELSE Append(bwAllocDb, alloc[1])

\* The tokens produced for an accepted allocation.
ProduceAmountTotal(total, lastTotal_) == total

ProduceAmount(total, lastTotal_) == total - lastTotal_

\* Retrieve up to the start of both loops: the section reader is opened
\* over length bytes (retrieveData returns at once if that fails), the recv
\* goroutine is started and the send loop tests its condition.
RetrieveStart ==
    /\ snd = "idle"
    /\ \E len \in 0..MaxLength, readerOk \in BOOLEAN :
        IF readerOk
        THEN /\ length' = len
             /\ rcv' = "recv"
             /\ snd' = IF 0 < len THEN "consume" ELSE "finish"
             /\ retErr' = retErr
        ELSE /\ snd' = "returned"
             /\ retErr' = "reader"
             /\ UNCHANGED <<length, rcv>>
    /\ UNCHANGED <<rmsg, lastTotal, lastAllocation, totalAllocated, used, chunk,
                   allocationTracking, bwAllocDb, bwUsedDb, sent, recvCount,
                   maxVerified, lastValid, sentAtLower, lastConsume>>
    /\ UNCHANGED notRetrieveVars

\* stream.Recv of the recv loop returns a message of the client.
RecvAlloc ==
    /\ rcv = "recv"
    /\ recvCount < MaxAllocs
    /\ \E total \in 0..MaxTotal, check \in AllocChecks :
        /\ rmsg' = <<[id |-> recvCount + 1, total |-> total, check |-> check]>>
        /\ sentAtLower' = IF total < lastTotal /\ sentAtLower = <<>>
                             /\ snd # "returned"
                          THEN <<sent>> ELSE sentAtLower
    /\ rcv' = "handle"
    /\ recvCount' = recvCount + 1
    /\ UNCHANGED <<lastTotal, lastAllocation, totalAllocated, snd, length, used,
                   chunk, retErr, allocationTracking, bwAllocDb, bwUsedDb, sent,
                   maxVerified, lastValid, lastConsume>>
    /\ UNCHANGED notRetrieveVars

\* stream.Recv of the recv loop returns an error (the client closed the
\* stream, or the stream ended with the session): the throttle fails and
\* the goroutine ends.
RecvFails ==
    /\ rcv = "recv"
    /\ allocationTracking' = ThrottleFail(allocationTracking, "recv")
    /\ rcv' = "done"
    /\ \E dbOk \in BOOLEAN : bwAllocDb' = DeferWriteAlloc(lastAllocation, dbOk)
    /\ UNCHANGED <<rmsg, lastTotal, lastAllocation, totalAllocated, snd, length,
                   used, chunk, retErr, bwUsedDb, sent, recvCount, maxVerified,
                   lastValid, sentAtLower, lastConsume>>
    /\ UNCHANGED notRetrieveVars

\* The recv loop checks the message it received: a failed check or a lower
\* total fails the throttle and ends the goroutine; otherwise the total is
\* stored, the difference is produced and the allocation becomes the last
\* one.  A Produce on a failed throttle ends the goroutine.
RecvHandle ==
    /\ rcv = "handle"
    /\ LET m    == rmsg[1]
           pr   == ThrottleProduce(allocationTracking,
                                   ProduceAmount(m.total, lastTotal))
           exit(e) ==
               /\ allocationTracking' = IF e = "" THEN allocationTracking
                                        ELSE ThrottleFail(allocationTracking, e)
               /\ rcv' = "done"
               /\ \E dbOk \in BOOLEAN :
                    bwAllocDb' = DeferWriteAlloc(lastAllocation, dbOk)
               /\ UNCHANGED <<lastTotal, lastAllocation>>
       IN  /\ maxVerified' = IF m.check = "ok" /\ m.total > maxVerified
                             THEN m.total ELSE maxVerified
           /\ lastValid' = IF m.check = "ok" /\ ~(lastTotal > m.total)
                           THEN <<m>> ELSE lastValid
           /\ IF m.check # "ok"
              THEN exit(m.check) /\ totalAllocated' = totalAllocated
              ELSE IF lastTotal > m.total
              THEN exit("lower") /\ totalAllocated' = totalAllocated
              ELSE /\ totalAllocated' = m.total
                   /\ IF pr.err # <<>>
                      THEN exit("")
                      ELSE /\ allocationTracking' = pr.th
                           /\ lastAllocation' = <<m>>
                           /\ lastTotal' = m.total
                           /\ rcv' = "recv"
                           /\ bwAllocDb' = bwAllocDb
    /\ rmsg' = <<>>
    /\ UNCHANGED <<snd, length, used, chunk, retErr, bwUsedDb, sent, recvCount,
                   sentAtLower, lastConsume>>
    /\ UNCHANGED notRetrieveVars

\* The send loop takes tokens: ConsumeOrWait returns once the throttle has
\* tokens or has failed.  On an error the loop fails the throttle with it
\* and breaks.
SendConsume ==
    /\ snd = "consume"
    /\ ConsumeReady(allocationTracking)
    /\ LET r == ThrottleConsumeOrWait(allocationTracking, MessageSize) IN
        /\ lastConsume' = <<[n |-> r.n, err |-> r.err,
                             failed |-> allocationTracking.errs]>>
        /\ IF r.err # <<>>
           THEN /\ allocationTracking' = r.th
                /\ snd' = "finish"
                /\ UNCHANGED <<used, chunk>>
           ELSE /\ allocationTracking' = r.th
                /\ used' = used + r.n
                /\ chunk' = r.n
                /\ snd' = "copy"
    /\ UNCHANGED <<rcv, rmsg, lastTotal, lastAllocation, totalAllocated, length,
                   retErr, bwAllocDb, bwUsedDb, sent, recvCount, maxVerified,
                   lastValid, sentAtLower>>
    /\ UNCHANGED notRetrieveVars

\* io.CopyN(writer, storeFile, nextMessageSize): n bytes reach the client;
\* all of them, or fewer when the section ends (io.EOF) or a Send fails.
\* Tokens not used go back to the throttle and used is corrected, unless
\* the throttle has failed; an error of the copy fails the throttle and
\* breaks the loop.
SendCopy ==
    /\ snd = "copy"
    /\ LET left == length - sent
           most == IF chunk < left THEN chunk ELSE left
       IN  \E n \in 0..most, sendOk \in BOOLEAN :
           /\ sendOk => n = most
           /\ ~sendOk => n < most
           /\ LET err == IF ~sendOk THEN "send"
                         ELSE IF n < chunk THEN "EOF" ELSE ""
                  pr  == ThrottleProduce(allocationTracking, chunk - n)
              IN  /\ sent' = sent + n
                  /\ IF n # chunk /\ pr.err # <<>>
                     THEN /\ snd' = "finish"
                          /\ UNCHANGED <<used, allocationTracking>>
                     ELSE LET th == IF n # chunk THEN pr.th ELSE allocationTracking
                              u  == IF n # chunk THEN used - (chunk - n) ELSE used
                          IN  /\ used' = u
                              /\ IF err # ""
                                 THEN /\ allocationTracking' = ThrottleFail(th, err)
                                      /\ snd' = "finish"
                                 ELSE /\ allocationTracking' = th
                                      /\ snd' = IF u < length THEN "consume"
                                                ELSE "finish"
    /\ chunk' = 0
    /\ UNCHANGED <<rcv, rmsg, lastTotal, lastAllocation, totalAllocated, length,
                   retErr, bwAllocDb, bwUsedDb, recvCount, maxVerified,
                   lastValid, sentAtLower, lastConsume>>
    /\ UNCHANGED notRetrieveVars

\* After the loop: the bandwidth used is written and retrieveData returns
\* the error of the throttle; the recv goroutine is not waited for.
SendFinish ==
    /\ snd = "finish"
    /\ \E dbOk \in BOOLEAN :
        IF dbOk
        THEN /\ bwUsedDb' = Append(bwUsedDb, used)
             /\ retErr' = IF allocationTracking.errs # <<>> THEN "throttle"
                          ELSE "nil"
        ELSE /\ bwUsedDb' = bwUsedDb
             /\ retErr' = "bwUsed"
    /\ snd' = "returned"
    /\ UNCHANGED <<rcv, rmsg, lastTotal, lastAllocation, totalAllocated, length,
                   used, chunk, allocationTracking, bwAllocDb, sent, recvCount,
                   maxVerified, lastValid, sentAtLower, lastConsume>>
    /\ UNCHANGED notRetrieveVars

NextRetrieve ==
    \/ RetrieveStart
    \/ RecvAlloc
    \/ RecvFails
    \/ RecvHandle
    \/ SendConsume
    \/ SendCopy
    \/ SendFinish

SpecRetrieve == Init /\ [][NextRetrieve]_vars

\* The scheduler runs a send loop whose ConsumeOrWait can return.
SpecRetrieveFair == SpecRetrieve /\ WF_vars(SendConsume)

\* ------------------------------------------------------------------------
\* Store session of the piece store server (SpecStore)
\* ------------------------------------------------------------------------

\* Server.deleteByID: the piece file and the TTL row of the id are
\* removed, or the call fails and leaves them.
DeleteByID(deleteOk) ==
    IF deleteOk
    THEN [pieceFile |-> <<>>, ttlRow |-> <<>>, failed |-> deleteFailed]
    ELSE [pieceFile |-> pieceFile, ttlRow |-> ttlRow, failed |-> TRUE]

\* The source function of the StreamReader, the test that makes a verified
\* allocation the one to be stored.
Retains(total, currentTotal_) == total > currentTotal_

\* StreamReader.Read, the tests before the source is read.
OutOfBandwidth(sofar_) == sofar_ >= bwLeft

OutOfSpace(sofar_) == sofar_ >= spaceLeft

\* What the source function finds in a bandwidth allocation.
StoreChecks == {"ok", "badsig", "badpayer"}

\* Store up to io.Copy: the request is received and checked, storeData
\* creates the piece file and reads the bandwidth and the space used.
StoreStart ==
    /\ spc = "idle"
    /\ \E requestOk \in BOOLEAN, writerOk \in BOOLEAN, dbOk \in BOOLEAN,
          bw \in 0..MaxBudget, sp \in 0..MaxBudget :
        IF ~requestOk
        THEN /\ spc' = "returned"
             /\ storeErr' = "request"
             /\ UNCHANGED <<pieceFile, bwLeft, spaceLeft>>
        ELSE IF ~writerOk
        THEN /\ spc' = "abort"
             /\ storeErr' = "writer"
             /\ UNCHANGED <<pieceFile, bwLeft, spaceLeft>>
        ELSE IF ~dbOk
        THEN /\ spc' = "abort"
             /\ storeErr' = "db"
             /\ pieceFile' = <<0>>
             /\ UNCHANGED <<bwLeft, spaceLeft>>
        ELSE /\ spc' = "copy"
             /\ storeErr' = storeErr
             /\ pieceFile' = <<0>>
             /\ bwLeft' = bw
             /\ spaceLeft' = sp
    /\ UNCHANGED <<ttlRow, sofar, bandwidthAllocation, currentTotal,
                   storeAllocDb, storeBwUsedDb, storeMsgs, verifiedAllocs,
                   deleteFailed>>
    /\ UNCHANGED notStoreVars

\* One iteration of io.Copy(storeFile, reader): StreamReader.Read tests
\* the budgets, reads the next message from the stream, verifies and maybe
\* retains its allocation, counts its bytes and tests the space again;
\* io.Copy writes the bytes read to the piece file before it looks at the
\* error.
StoreRead ==
    /\ spc = "copy"
    /\ LET fail(e) == /\ spc' = "abort"
                      /\ storeErr' = e
           quiet   == UNCHANGED <<pieceFile, sofar, bandwidthAllocation,
                                  currentTotal, storeMsgs, verifiedAllocs>>
       IN
       IF OutOfBandwidth(sofar) THEN fail("out of bandwidth") /\ quiet
       ELSE IF OutOfSpace(sofar) THEN fail("out of space") /\ quiet
       ELSE \/ \* stream.Recv fails
               fail("stream") /\ quiet
            \/ \* the client has closed the stream: io.EOF
               /\ spc' = "eof"
               /\ storeErr' = storeErr
               /\ quiet
            \/ \* a message, without allocation
               /\ storeMsgs < MaxStoreMsgs
               /\ storeMsgs' = storeMsgs + 1
               /\ \E c \in 0..MaxContent, writeOk \in BOOLEAN :
                    /\ sofar' = sofar + c
                    /\ pieceFile' = IF writeOk THEN <<pieceFile[1] + c>> ELSE pieceFile
                    /\ IF ~writeOk THEN fail("write")
                       ELSE IF OutOfSpace(sofar + c) THEN fail("out of space")
                       ELSE spc' = spc /\ storeErr' = storeErr
               /\ UNCHANGED <<bandwidthAllocation, currentTotal, verifiedAllocs>>
            \/ \* a message with a bandwidth allocation
               /\ storeMsgs < MaxStoreMsgs
               /\ storeMsgs' = storeMsgs + 1
               /\ \E c \in 0..MaxContent, t \in 0..MaxStoreTotal,
                     check \in StoreChecks :
                    LET ba == [id |-> storeMsgs + 1, total |-> t] IN
                    IF check # "ok"
                    THEN /\ fail(check)
                         /\ UNCHANGED <<pieceFile, sofar, bandwidthAllocation,
                                        currentTotal, verifiedAllocs>>
                    ELSE /\ verifiedAllocs' = Append(verifiedAllocs, ba)
                         /\ IF Retains(t, currentTotal)
                            THEN /\ bandwidthAllocation' = <<ba>>
                                 /\ currentTotal' = t
                            ELSE UNCHANGED <<bandwidthAllocation, currentTotal>>
                         /\ sofar' = sofar + c
                         /\ pieceFile' = <<pieceFile[1] + c>>
                         /\ IF OutOfSpace(sofar + c) THEN fail("out of space")
                            ELSE spc' = spc /\ storeErr' = storeErr
    /\ UNCHANGED <<ttlRow, bwLeft, spaceLeft, storeAllocDb, storeBwUsedDb,
                   deleteFailed>>
    /\ UNCHANGED notStoreVars

\* storeData returns an error: its deferred function calls deleteByID and
\* Store returns the error.
StoreAbort ==
    /\ spc = "abort"
    /\ \E deleteOk \in BOOLEAN :
        LET d == DeleteByID(deleteOk) IN
        /\ pieceFile' = d.pieceFile
        /\ ttlRow' = d.ttlRow
        /\ deleteFailed' = d.failed
    /\ spc' = "returned"
    /\ UNCHANGED <<bwLeft, spaceLeft, sofar, bandwidthAllocation, currentTotal,
                   storeErr, storeAllocDb, storeBwUsedDb, storeMsgs,
                   verifiedAllocs>>
    /\ UNCHANGED notStoreVars

\* After io.EOF: storeData writes the retained allocation; Store adds the
\* TTL row (and deletes the piece if that fails), adds the bandwidth used
\* and answers the client.
StoreFinish ==
    /\ spc = "eof"
    /\ \E allocOk \in BOOLEAN, ttlOk \in BOOLEAN, bwOk \in BOOLEAN,
          sendOk \in BOOLEAN, deleteOk \in BOOLEAN :
        IF ~allocOk
        THEN /\ spc' = "abort"
             /\ storeErr' = "allocDb"
             /\ UNCHANGED <<pieceFile, ttlRow, storeAllocDb, storeBwUsedDb,
                            deleteFailed>>
        ELSE /\ storeAllocDb' = Append(storeAllocDb, bandwidthAllocation)
             /\ spc' = "returned"
             /\ IF ~ttlOk
                THEN LET d == DeleteByID(deleteOk) IN
                     /\ pieceFile' = d.pieceFile
                     /\ ttlRow' = d.ttlRow
                     /\ deleteFailed' = d.failed
                     /\ storeErr' = "ttl"
                     /\ storeBwUsedDb' = storeBwUsedDb
                ELSE /\ ttlRow' = <<pieceFile[1]>>
                     /\ UNCHANGED <<pieceFile, deleteFailed>>
                     /\ IF ~bwOk
                        THEN /\ storeErr' = "bwUsed"
                             /\ storeBwUsedDb' = storeBwUsedDb
                        ELSE /\ storeBwUsedDb' = Append(storeBwUsedDb, pieceFile[1])
                             /\ storeErr' = IF sendOk THEN "nil" ELSE "send"
    /\ UNCHANGED <<bwLeft, spaceLeft, sofar, bandwidthAllocation, currentTotal,
                   storeMsgs, verifiedAllocs>>
    /\ UNCHANGED notStoreVars

NextStore ==
    \/ StoreStart
    \/ StoreRead
    \/ StoreAbort
    \/ StoreFinish

SpecStore == Init /\ [][NextStore]_vars

\* ------------------------------------------------------------------------
\* MultipartStream of the gateway (SpecMultipart)
\* ------------------------------------------------------------------------

\* AddPart, the parts after the append, without the sort.
InsertPartAppend(parts, part) == Append(parts, part)

\* AddPart, the parts after the append and the sort by ID.
InsertPart(parts, part) ==
    LET lower == SelectSeq(parts, LAMBDA q : q.ID < part.ID)
        rest  == SelectSeq(parts, LAMBDA q : ~(q.ID < part.ID))
    IN  lower \o <<part>> \o rest

\* MultipartStream.AddPart: an id that is among the waiting parts is
\* refused; otherwise the part gets the next Number and a Done channel and
\* is sorted into the parts.
AddPart(partID) ==
    /\ mNextNumber < MaxAdds
    /\ ~\E i \in 1..Len(mparts) : mparts[i].ID = partID
    /\ mNextNumber' = mNextNumber + 1
    /\ mparts' = InsertPart(mparts, [ID |-> partID, Number |-> mNextNumber])
    /\ partLeft' = [partLeft EXCEPT ![mNextNumber] = PartSize(partID)]
    /\ partDone' = [partDone EXCEPT ![mNextNumber] = "open"]
    /\ addOrder' = Append(addOrder, partID)
    /\ UNCHANGED <<mNextID, mClosed, mFinished, mErr, rd, curPart, readOut,
                   addedAtClose, abortPending>>
    /\ UNCHANGED notMultipartVars

\* MultipartStream.Close.
Close ==
    /\ ~mClosed
    /\ mClosed' = TRUE
    /\ addedAtClose' = <<Range(addOrder)>>
    /\ UNCHANGED <<mparts, mNextID, mNextNumber, mFinished, mErr, partLeft,
                   partDone, rd, curPart, readOut, addOrder, abortPending>>
    /\ UNCHANGED notMultipartVars

\* The Done channels after Abort has sent err to every part of the parts
\* and closed its channel.
AbortDone(parts, err) ==
    [k \in DOMAIN partDone |->
        IF \E i \in 1..Len(parts) : parts[i].Number = k THEN err
        ELSE partDone[k]]

\* MultipartStream.Abort, called by AbortMultipartUpload: nothing happens
\* on a finished stream; otherwise the stream takes the error, is finished
\* and closed, and the parts are failed and dropped.
Abort ==
    /\ abortPending = <<>>
    /\ abortPending' = <<{k \in DOMAIN partDone : partDone[k] = "open"}>>
    /\ IF mFinished
       THEN UNCHANGED <<mErr, mFinished, mClosed, partDone, mparts>>
       ELSE /\ mErr' = IF mErr = "nil" THEN "abort" ELSE mErr
            /\ mFinished' = TRUE
            /\ mClosed' = TRUE
            /\ partDone' = AbortDone(mparts, "abort")
            /\ mparts' = <<>>
    /\ UNCHANGED <<mNextID, mNextNumber, partLeft, rd, curPart, readOut, addOrder,
                   addedAtClose>>
    /\ UNCHANGED notMultipartVars

\* errs.Class.Wrap: nil for a nil error, otherwise the error in the class.
ErrorWrap(err) == IF err = "nil" THEN "nil" ELSE err

\* What Read returns when it finds stream.err set: no bytes and
\* Error.Wrap(err), where err is the result parameter of Read, which is
\* nil at that point, not stream.err.
ReadOnError(streamErr, err) == [n |-> 0, err |-> ErrorWrap(err)]

\* The loop at the head of Read returns: when the stream has an error, with
\* what ReadOnError says (after no bytes and a nil error the consumer calls
\* Read again); with the next part when it is the first of the parts; or
\* with io.EOF when the stream is closed; otherwise Read waits.
ReadBegin ==
    /\ rd \in {"read", "empty"}
    /\ IF mErr # "nil"
       THEN /\ rd' = IF ReadOnError(mErr, "nil").err = "nil" THEN "empty" ELSE "failed"
            /\ UNCHANGED <<curPart, mFinished>>
       ELSE IF mparts # <<>> /\ mNextID = mparts[1].ID
       THEN /\ rd' = "part"
            /\ curPart' = <<mparts[1]>>
            /\ UNCHANGED mFinished
       ELSE /\ mClosed
            /\ mFinished' = TRUE
            /\ rd' = "eof"
            /\ UNCHANGED curPart
    /\ UNCHANGED <<mparts, mNextID, mNextNumber, mClosed, mErr, partLeft,
                   partDone, readOut, addOrder, addedAtClose, abortPending>>
    /\ UNCHANGED notMultipartVars

\* Read reads from the part it picked: n bytes, then on io.EOF the part is
\* dropped from the head of the parts, nextID advances and the Done channel
\* is closed; on another error the stream is aborted.  Slicing the parts
\* after an Abort emptied them, or closing a channel Abort has closed,
\* panics.
ReadPart ==
    /\ rd = "part"
    /\ LET part == curPart[1]
           left == partLeft[part.Number]
           from == PartSize(part.ID) - left
       IN  \E n \in 0..left, res \in {"nil", "EOF", "error"} :
           /\ res = "nil" => n > 0
           /\ res = "EOF" => n = left
           /\ readOut' = readOut \o [k \in 1..n |-> <<part.ID, from + k>>]
           /\ partLeft' = [partLeft EXCEPT ![part.Number] = left - n]
           /\ IF res = "EOF"
              THEN IF mparts = <<>> \/ partDone[part.Number] # "open"
                   THEN /\ rd' = "panic"
                        /\ UNCHANGED <<mparts, mNextID, partDone, mErr,
                                       mFinished, mClosed>>
                   ELSE /\ mparts' = Tail(mparts)
                        /\ mNextID' = mNextID + 1
                        /\ partDone' = [partDone EXCEPT ![part.Number] = "closed"]
                        /\ rd' = "read"
                        /\ UNCHANGED <<mErr, mFinished, mClosed>>
              ELSE IF res = "error"
              THEN /\ rd' = "failed"
                   /\ IF mFinished
                      THEN UNCHANGED <<mparts, partDone, mErr, mFinished, mClosed>>
                      ELSE /\ mErr' = IF mErr = "nil" THEN "read" ELSE mErr
                           /\ mFinished' = TRUE
                           /\ mClosed' = TRUE
                           /\ partDone' = AbortDone(mparts, "read")
                           /\ mparts' = <<>>
                   /\ UNCHANGED mNextID
              ELSE /\ rd' = "read"
                   /\ UNCHANGED <<mparts, mNextID, partDone, mErr, mFinished,
                                  mClosed>>
    /\ curPart' = <<>>
    /\ UNCHANGED <<mNextNumber, addOrder, addedAtClose, abortPending>>
    /\ UNCHANGED notMultipartVars

NextMultipart ==
    \/ \E partID \in PartIDs : AddPart(partID)
    \/ Close
    \/ Abort
    \/ ReadBegin
    \/ ReadPart

SpecMultipart == Init /\ [][NextMultipart]_vars

\* The consumer of the stream keeps calling Read, and a Read under way
\* goes on.
SpecMultipartFair ==
    SpecMultipart /\ WF_vars(ReadBegin) /\ WF_vars(ReadPart)

\* ------------------------------------------------------------------------
\* Connection pool (SpecPool)
\* ------------------------------------------------------------------------

\* node.NewConn: no dial made, no connection, no error.
NewConn == [dial |-> "new", grpc |-> FALSE, err |-> "nil", client |-> FALSE,
            dials |-> 0, closed |-> FALSE]

\* disconnect, the test that ends it before the entry is deleted.
NothingToClose(conn) == ~conn.grpc

\* Dial, under the lock: the Conn of the entry, made and stored when the
\* pool has none.
DialLookup(t) ==
    /\ caller[t].pc = "idle"
    /\ dialCalls < MaxDials
    /\ dialCalls' = dialCalls + 1
    /\ IF poolItems = <<>>
       THEN /\ conns' = Append(conns, NewConn)
            /\ poolItems' = <<Len(conns) + 1>>
            /\ caller' = [caller EXCEPT ![t] = [pc |-> "once", conn |-> Len(conns) + 1,
                                                result |-> "none"]]
       ELSE /\ caller' = [caller EXCEPT ![t] = [pc |-> "once", conn |-> poolItems[1],
                                                result |-> "none"]]
            /\ UNCHANGED <<conns, poolItems>>
    /\ UNCHANGED <<disconnects, disconnected>>
    /\ UNCHANGED notPoolVars

\* What Dial returns from a Conn whose dial is done.
DialResult(conn) == IF conn.err # "nil" THEN conn.err ELSE "client"

\* sync.Once: Do runs the function for the first caller only.
OnceRunsAlways(conn) == conn.dial # "running"

OnceRuns(conn) == conn.dial = "new"

\* conn.dial.Do: the first thread to arrive runs the function, a thread
\* that arrives while it runs waits for its end, a thread that arrives
\* later goes on at once; after Do, Dial returns conn.err or conn.client.
DialOnce(t) ==
    /\ caller[t].pc = "once"
    /\ LET c == caller[t].conn IN
       \/ /\ OnceRuns(conns[c])
          /\ conns' = [conns EXCEPT ![c].dial = "running"]
          /\ caller' = [caller EXCEPT ![t].pc = "dialing"]
       \/ /\ ~OnceRuns(conns[c])
          /\ conns[c].dial = "done"
          /\ caller' = [caller EXCEPT ![t].pc = "idle",
                                      ![t].result = DialResult(conns[c])]
          /\ conns' = conns
    /\ UNCHANGED <<poolItems, dialCalls, disconnects, disconnected>>
    /\ UNCHANGED notPoolVars

\* The function given to Do: the transport dial, which stores the error,
\* or the connection and the client; then Do and Dial return.
DialNode(t) ==
    /\ caller[t].pc = "dialing"
    /\ LET c == caller[t].conn IN
       \E ok \in BOOLEAN :
        LET conn == IF ok
                    THEN [conns[c] EXCEPT !.dial = "done", !.grpc = TRUE,
                                          !.client = TRUE, !.dials = @ + 1]
                    ELSE [conns[c] EXCEPT !.dial = "done", !.err = "dial error",
                                          !.dials = @ + 1]
        IN  /\ conns' = [conns EXCEPT ![c] = conn]
            /\ caller' = [caller EXCEPT ![t].pc = "idle",
                                        ![t].result = DialResult(conn)]
    /\ UNCHANGED <<poolItems, dialCalls, disconnects, disconnected>>
    /\ UNCHANGED notPoolVars

\* ConnectionPool.Disconnect: without an entry, or with an entry that has
\* no connection, nothing happens; otherwise the entry is deleted and the
\* connection closed.
Disconnect ==
    /\ disconnects < MaxDisconnects
    /\ disconnects' = disconnects + 1
    /\ IF poolItems = <<>>
       THEN UNCHANGED <<poolItems, conns, disconnected>>
       ELSE /\ disconnected' = disconnected \cup {poolItems[1]}
            /\ IF NothingToClose(conns[poolItems[1]])
               THEN UNCHANGED <<poolItems, conns>>
               ELSE /\ poolItems' = <<>>
                    /\ conns' = [conns EXCEPT ![poolItems[1]].closed = TRUE]
    /\ UNCHANGED <<caller, dialCalls>>
    /\ UNCHANGED notPoolVars

NextPool ==
    \/ \E t \in Callers : DialLookup(t)
    \/ \E t \in Callers : DialOnce(t)
    \/ \E t \in Callers : DialNode(t)
    \/ Disconnect

SpecPool == Init /\ [][NextPool]_vars

\* ------------------------------------------------------------------------
\* The pointer service (pointerdb.Server)
\* ------------------------------------------------------------------------

\* The pointers a PutRequest can carry: a remote pointer of some segment
\* size, or an inline pointer whose InlineSegment has some length.
RequestPointers ==
    [remote : {TRUE}, SegmentSize : 0..MaxSegmentSize, inlineSize : {0}]
        \cup [remote : {FALSE}, SegmentSize : {0}, inlineSize : 0..MaxSegmentSize]

\* The API key of the request context: none, a wrong one, the valid one.
APIKeys == {"none", "wrong", "valid"}

\* Server.validateAuth.
validateAuth(key) == IF key = "valid" THEN "OK" ELSE "Unauthenticated"

\* Server.validateSegment.
validateSegment(ptr) ==
    IF ptr.remote /\ ptr.SegmentSize < MinRemoteSegmentSize THEN FALSE
    ELSE IF ptr.inlineSize > MaxInlineSegmentSize THEN FALSE
    ELSE TRUE

\* The status of Server.Put.
PutStatus(key, ptr, dbOk) ==
    IF ~validateSegment(ptr) THEN "InvalidArgument"
    ELSE IF validateAuth(key) # "OK" THEN validateAuth(key)
    ELSE IF ~dbOk THEN "Internal"
    ELSE "OK"

\* The record of the call that a handler leaves.
Called(rpc, key, status) ==
    [rpc |-> rpc, key |-> key, status |-> status, before |-> pdb, list |-> NoList]

\* storage.Key.Less: the byte order of two keys.
KeyLess(a, b) ==
    \E i \in 1..Len(b) :
        /\ \A j \in 1..(i - 1) : j <= Len(a) /\ a[j] = b[j]
        /\ (i > Len(a) \/ a[i] < b[i])

\* Whether key starts with prefix.
HasPrefix(key, prefix) ==
    /\ Len(prefix) <= Len(key)
    /\ SubSeq(key, 1, Len(prefix)) = prefix

\* The prefix that Server.List hands to ListV2: the request's prefix, with
\* the delimiter appended when it does not end with it.
ListPrefix(prefix) ==
    IF prefix = <<>> THEN <<>>
    ELSE IF prefix[Len(prefix)] # Delimiter THEN Append(prefix, Delimiter)
    ELSE prefix

\* The entry a key under the prefix is listed as: the key without the
\* prefix, or, in a non-recursive listing, its first component up to the
\* delimiter as a prefix entry.
ListEntry(rel, recursive) ==
    LET ds == {i \in 1..Len(rel) : rel[i] = Delimiter}
    IN  IF recursive \/ ds = {}
        THEN [Path |-> rel, IsPrefix |-> FALSE]
        ELSE [Path |-> SubSeq(rel, 1, CHOOSE d \in ds : \A e \in ds : d <= e),
              IsPrefix |-> TRUE]

\* The entries in ascending byte order of their paths.
RECURSIVE SortEntries(_)
SortEntries(S) ==
    IF S = {} THEN <<>>
    ELSE LET m == CHOOSE x \in S : \A y \in S \ {x} : KeyLess(x.Path, y.Path)
         IN  <<m>> \o SortEntries(S \ {m})

\* start_after and end_before are taken as lower and upper bounds that
\* the path itself satisfies.
InBoundsInclusive(path, opts) ==
    /\ (opts.StartAfter # <<>> => ~KeyLess(path, opts.StartAfter))
    /\ (opts.EndBefore # <<>> => ~KeyLess(opts.EndBefore, path))

\* start_after is an exclusive lower bound and end_before an exclusive
\* upper bound of the listed paths.
InBounds(path, opts) ==
    /\ (opts.StartAfter # <<>> => KeyLess(opts.StartAfter, path))
    /\ (opts.EndBefore # <<>> => KeyLess(path, opts.EndBefore))

\* storage.ListV2 with ListOptions: the keys under the prefix, without the
\* prefix, collapsed when the listing is not recursive, within the bounds,
\* in ascending order, cut at the limit.
ListV2Options(db, opts) ==
    LET keys    == {KeyOf(p) : p \in {q \in PointerPaths : db[q] # <<>>}}
        under   == {k \in keys : HasPrefix(k, opts.Prefix) /\ k # opts.Prefix}
        entries == {ListEntry(SubSeq(k, Len(opts.Prefix) + 1, Len(k)), opts.Recursive) : k \in under}
        listed  == SortEntries({e \in entries : InBounds(e.Path, opts)})
        cut     == opts.Limit > 0 /\ Len(listed) > opts.Limit
    IN  [Items |-> IF cut THEN SubSeq(listed, 1, opts.Limit) ELSE listed,
         More  |-> cut]

\* Server.Put.
ServerPut ==
    \E key \in APIKeys, path \in PointerPaths, ptr \in RequestPointers, dbOk \in BOOLEAN :
        LET status == PutStatus(key, ptr, dbOk)
        IN  /\ pdb' = IF status = "OK" THEN [pdb EXCEPT ![path] = <<ptr>>] ELSE pdb
            /\ lastCall' = Called("Put", key, status)
            /\ UNCHANGED notPointerdbVars

\* Server.Get: the pointer is read, the payer bandwidth allocation and the
\* signed message are made (restOk).
ServerGet ==
    \E key \in APIKeys, path \in PointerPaths, dbOk \in BOOLEAN, restOk \in BOOLEAN :
        LET status == IF validateAuth(key) # "OK" THEN validateAuth(key)
                      ELSE IF ~dbOk THEN "Internal"
                      ELSE IF pdb[path] = <<>> THEN "NotFound"
                      ELSE IF ~restOk THEN "Internal"
                      ELSE "OK"
        IN  /\ lastCall' = Called("Get", key, status)
            /\ UNCHANGED pdb
            /\ UNCHANGED notPointerdbVars

\* Server.List: the items of the response are the raw items of ListV2.
ServerList ==
    \E key \in APIKeys, dbOk \in BOOLEAN :
        LET status == IF validateAuth(key) # "OK" THEN validateAuth(key)
                      ELSE IF ~dbOk THEN "Internal"
                      ELSE "OK"
        IN  /\ IF status # "OK"
               THEN lastCall' = Called("List", key, status)
               ELSE \E prefix \in ListPrefixes, startAfter \in ListBounds,
                       endBefore \in ListBounds, recursive \in BOOLEAN,
                       limit \in ListLimits :
                        LET res == ListV2Options(pdb,
                                       [Prefix |-> ListPrefix(prefix), StartAfter |-> startAfter,
                                        EndBefore |-> endBefore, Recursive |-> recursive,
                                        Limit |-> limit])
                        IN  lastCall' = [Called("List", key, status) EXCEPT
                                           !.list = [listed |-> TRUE, StartAfter |-> startAfter,
                                                     EndBefore |-> endBefore, Prefix |-> prefix,
                                                     Items |-> res.Items, More |-> res.More]]
            /\ UNCHANGED pdb
            /\ UNCHANGED notPointerdbVars

\* Server.Delete.
ServerDelete ==
    \E key \in APIKeys, path \in PointerPaths, dbOk \in BOOLEAN :
        LET status == IF validateAuth(key) # "OK" THEN validateAuth(key)
                      ELSE IF ~dbOk THEN "Internal"
                      ELSE "OK"
        IN  /\ pdb' = IF status = "OK" THEN [pdb EXCEPT ![path] = <<>>] ELSE pdb
            /\ lastCall' = Called("Delete", key, status)
            /\ UNCHANGED notPointerdbVars

\* Server.Iterate: the error of DB.Iterate is returned as it is.
ServerIterate ==
    \E key \in APIKeys, dbOk \in BOOLEAN :
        LET status == IF validateAuth(key) # "OK" THEN validateAuth(key)
                      ELSE IF ~dbOk THEN "Unknown"
                      ELSE "OK"
        IN  /\ lastCall' = Called("Iterate", key, status)
            /\ UNCHANGED pdb
            /\ UNCHANGED notPointerdbVars

\* Server.PayerBandwidthAllocation: the peer identity, its public key, the
\* serial number and the signature (restOk).
ServerPayerBandwidthAllocation ==
    \E key \in APIKeys, restOk \in BOOLEAN :
        LET status == IF validateAuth(key) # "OK" THEN validateAuth(key)
                      ELSE IF ~restOk THEN "Internal"
                      ELSE "OK"
        IN  /\ lastCall' = Called("PayerBandwidthAllocation", key, status)
            /\ UNCHANGED pdb
            /\ UNCHANGED notPointerdbVars

NextPointerdb ==
    \/ ServerPut
    \/ ServerGet
    \/ ServerList
    \/ ServerDelete
    \/ ServerIterate
    \/ ServerPayerBandwidthAllocation

SpecPointerdb == Init /\ [][NextPointerdb]_vars

\* ------------------------------------------------------------------------
\* The replacement cache of the routing table (kademlia.RoutingTable)
\* ------------------------------------------------------------------------

\* A cache over its capacity loses its newest node.
DropNewest(cached) ==
    IF Len(cached) > rcBucketSize THEN SubSeq(cached, 1, rcBucketSize) ELSE cached

\* A cache over its capacity loses its oldest node.
DropOldest(cached) ==
    IF Len(cached) > rcBucketSize THEN Tail(cached) ELSE cached

\* RoutingTable.addToReplacementCache.
addToReplacementCache(kadBucketID, node) ==
    /\ Len(rcInserted[1]) + Len(rcInserted[2]) < MaxInserts
    /\ replacementCache' =
           [replacementCache EXCEPT ![kadBucketID] = DropOldest(Append(@, node))]
    /\ rcInserted' = [rcInserted EXCEPT ![kadBucketID] = Append(@, node)]
    /\ UNCHANGED <<uploadVars, pointers, repairVars, retrieveVars, storeVars,
                   multipartVars, poolVars, pointerdbVars, cursorVars,
                   verifierVars, senderVars, decodeVars, lookupVars,
                   registryVars>>

NextRouting ==
    \E b \in KadBuckets, n \in ReplacementNodes : addToReplacementCache(b, n)

SpecRouting == Init /\ [][NextRouting]_vars

\* ------------------------------------------------------------------------
\* The registry of pending multipart uploads (miniogw.MultipartUploads)
\* ------------------------------------------------------------------------

\* How each method takes uploads.mu: Create and Get call Lock, Remove and
\* RemoveByID call RLock.
LockMode(op) == IF op \in {"Create", "Get"} THEN "Lock" ELSE "RLock"

\* sync.RWMutex: Lock waits for the writer and all readers to leave, RLock
\* waits for the writer only.
CanLock(mode) ==
    IF mode = "Lock" THEN mu.writer = NIL /\ mu.readers = {}
    ELSE mu.writer = NIL

\* A goroutine holds uploads.mu and has not yet run the body of its method.
Accessing(g) == uploadsPc[g].pc = "locked"

\* The body of the method that g is in writes to uploads.pending: Create
\* deletes and inserts, RemoveByID deletes, Remove deletes once its checks
\* pass.
Modifies(g) ==
    LET c == uploadsPc[g]
    IN  \/ c.op \in {"Create", "RemoveByID"}
        \/ c.op = "Remove" /\ pending[c.id] # NIL /\ pending[c.id] = c.loc

\* Another goroutine is in the map while g is, and one of the two writes.
Races(g) ==
    \E h \in Goroutines \ {g} :
        Accessing(h) /\ (Modifies(g) \/ Modifies(h))

\* The entry of a method: uploads.mu.Lock() or uploads.mu.RLock().
UploadsLock(g, op, loc, id) ==
    /\ ~mapFault
    /\ uploadsPc[g].pc = "idle"
    /\ op = "Create" => lastID < MaxUploadIds
    /\ CanLock(LockMode(op))
    /\ mu' = IF LockMode(op) = "Lock" THEN [mu EXCEPT !.writer = g]
             ELSE [mu EXCEPT !.readers = @ \cup {g}]
    /\ uploadsPc' = [uploadsPc EXCEPT ![g] = [op |-> op, pc |-> "locked",
                                              loc |-> loc, id |-> id]]
    /\ UNCHANGED <<pending, lastID, streamAborted, mapFault>>

\* The body of a method is left, either with its effect on the registry or,
\* when it ran into another goroutine's access with one of them writing
\* (a data race on the map), possibly with the fault the runtime raises on
\* a concurrent map access.
BodyDone(g, pending1, lastID1, aborted1) ==
    /\ uploadsPc' = [uploadsPc EXCEPT ![g].pc = "done"]
    /\ UNCHANGED mu
    /\ \/ /\ pending' = pending1
          /\ lastID' = lastID1
          /\ streamAborted' = aborted1
          /\ UNCHANGED mapFault
       \/ /\ Races(g)
          /\ mapFault' = TRUE
          /\ UNCHANGED <<pending, lastID, streamAborted>>

\* MultipartUploads.Create between Lock and Unlock: the pending uploads to
\* the same location are aborted and deleted, the new upload is registered
\* under the next id.
Create(g) ==
    /\ ~mapFault
    /\ Accessing(g)
    /\ uploadsPc[g].op = "Create"
    /\ LET same == {id \in UploadIds : pending[id] = uploadsPc[g].loc}
       IN  BodyDone(g,
                    [id \in UploadIds |->
                        IF id = lastID + 1 THEN uploadsPc[g].loc
                        ELSE IF id \in same THEN NIL
                        ELSE pending[id]],
                    lastID + 1,
                    streamAborted \cup same)

\* MultipartUploads.Get between Lock and Unlock: the map is read only.
Get(g) ==
    /\ ~mapFault
    /\ Accessing(g)
    /\ uploadsPc[g].op = "Get"
    /\ BodyDone(g, pending, lastID, streamAborted)

\* MultipartUploads.Remove between RLock and RUnlock: the upload is deleted
\* when it is pending at that location.
Remove(g) ==
    /\ ~mapFault
    /\ Accessing(g)
    /\ uploadsPc[g].op = "Remove"
    /\ BodyDone(g,
                IF Modifies(g) THEN [pending EXCEPT ![uploadsPc[g].id] = NIL]
                ELSE pending,
                lastID, streamAborted)

\* MultipartUploads.RemoveByID between RLock and RUnlock.
RemoveByID(g) ==
    /\ ~mapFault
    /\ Accessing(g)
    /\ uploadsPc[g].op = "RemoveByID"
    /\ BodyDone(g, [pending EXCEPT ![uploadsPc[g].id] = NIL], lastID,
                streamAborted)

\* The deferred uploads.mu.Unlock() or uploads.mu.RUnlock().
UploadsUnlock(g) ==
    /\ ~mapFault
    /\ uploadsPc[g].pc = "done"
    /\ mu' = IF LockMode(uploadsPc[g].op) = "Lock" THEN [mu EXCEPT !.writer = NIL]
             ELSE [mu EXCEPT !.readers = @ \ {g}]
    /\ uploadsPc' = [uploadsPc EXCEPT ![g] = NoRegistryCall]
    /\ UNCHANGED <<pending, lastID, streamAborted, mapFault>>

notRegistryVars == <<uploadVars, pointers, repairVars, retrieveVars, storeVars,
                     multipartVars, poolVars, pointerdbVars, cursorVars,
                     verifierVars, senderVars, decodeVars, lookupVars,
                     routingVars>>

NextRegistry ==
    \/ \E g \in Goroutines, loc \in Locations :
           UploadsLock(g, "Create", loc, NIL) /\ UNCHANGED notRegistryVars
    \/ \E g \in Goroutines, loc \in Locations, id \in UploadIds :
           UploadsLock(g, "Get", loc, id) /\ UNCHANGED notRegistryVars
    \/ \E g \in Goroutines, loc \in Locations, id \in UploadIds :
           UploadsLock(g, "Remove", loc, id) /\ UNCHANGED notRegistryVars
    \/ \E g \in Goroutines, id \in UploadIds :
           UploadsLock(g, "RemoveByID", NIL, id) /\ UNCHANGED notRegistryVars
    \/ \E g \in Goroutines : Create(g) /\ UNCHANGED notRegistryVars
    \/ \E g \in Goroutines : Get(g) /\ UNCHANGED notRegistryVars
    \/ \E g \in Goroutines : Remove(g) /\ UNCHANGED notRegistryVars
    \/ \E g \in Goroutines : RemoveByID(g) /\ UNCHANGED notRegistryVars
    \/ \E g \in Goroutines : UploadsUnlock(g) /\ UNCHANGED notRegistryVars

SpecRegistry == Init /\ [][NextRegistry]_vars

\* ------------------------------------------------------------------------
\* The audit cursor (audit.Cursor)
\* ------------------------------------------------------------------------

\* The paths of the pointer DB after startAfter, in ascending order.
PathsAfter(db, startAfter) ==
    SelectSeq([i \in 1..MaxPointerPaths |-> i],
              LAMBDA p : db[p] # <<>> /\ p > startAfter)

\* storage.ListV2 as Server.List calls it for a recursive listing without a
\* limit: the first LookupLimit paths after startAfter, and whether the scan
\* was cut by the limit.
ListV2(db, startAfter) ==
    LET after == PathsAfter(db, startAfter)
    IN  [Items |-> SubSeq(after, 1, IF Len(after) < LookupLimit THEN Len(after) ELSE LookupLimit),
         More  |-> Len(after) > LookupLimit]

\* The path that NextStripe leaves in cursor.lastPath.
LastPathAfter(res, old) ==
    IF res.Items = <<>> THEN old
    ELSE IF ~res.More THEN StartPath
    ELSE res.Items[Len(res.Items)]

\* What NextStripe returns for the pointer it drew.
StripeOf(ptr, getOk) ==
    IF ~getOk THEN "error"
    ELSE IF ~ptr.remote THEN "nil"
    ELSE IF ptr.SegmentSize = 0 THEN "nil"
    ELSE "stripe"

\* Cursor.NextStripe: the listing, the random pointer of the page, the
\* cursor update, the Get of the pointer.
NextStripe ==
    \E listOk \in BOOLEAN, getOk \in BOOLEAN :
        LET res == ListV2(pdb, lastPath)
        IN  IF ~listOk
            THEN /\ lastNext' = [called |-> TRUE, listed |-> FALSE, startAfter |-> lastPath,
                                 page |-> <<>>, more |-> FALSE, result |-> "error"]
                 /\ UNCHANGED <<lastPath, pdb, lastCall>>
                 /\ UNCHANGED notCursorVars
            ELSE \E i \in 1..(IF res.Items = <<>> THEN 1 ELSE Len(res.Items)) :
                 /\ lastPath' = LastPathAfter(res, lastPath)
                 /\ lastNext' = [called |-> TRUE, listed |-> TRUE, startAfter |-> lastPath,
                                 page |-> res.Items, more |-> res.More,
                                 result |-> IF res.Items = <<>> THEN "nil"
                                            ELSE StripeOf(pdb[res.Items[i]][1], getOk)]
                 /\ UNCHANGED <<pdb, lastCall>>
                 /\ UNCHANGED notCursorVars

\* A client of the pointer service stores a pointer.
CursorPut ==
    /\ ServerPut
    /\ lastCall'.status = "OK"

\* A client of the pointer service deletes a pointer.
CursorDelete ==
    /\ ServerDelete
    /\ lastCall'.status = "OK"

NextCursor ==
    \/ NextStripe
    \/ CursorPut
    \/ CursorDelete

SpecCursor == Init /\ [][NextCursor]_vars

\* ------------------------------------------------------------------------
\* The audit verifier (audit.Verifier)
\* ------------------------------------------------------------------------

\* What the download of one share can come to: the share as it was stored,
\* an altered share, or an error.
ShareOutcomes == {"good", "bad", "offline"}

\* The nodes of the audited pointer as overlay.BulkLookup returns them: the
\* node of piece number i (from 0) is node i + 1, and all are resolved.
AuditNode(pieceNum) == pieceNum + 1

\* defaultDownloader.DownloadShares: one share per node, numbered by its
\* index in the node list.
DownloadShares(outcome) ==
    [i \in 1..TotalCount |->
        [Error       |-> outcome[i] = "offline",
         PieceNumber |-> i - 1,
         Data        |-> IF outcome[i] = "offline" THEN "nil" ELSE outcome[i]]]

\* makeCopies: a share with an error leaves an empty infectious.Share (no
\* data, number 0) at its index.
makeCopies(originals) ==
    [i \in 1..Len(originals) |->
        IF originals[i].Error THEN [Number |-> 0, Data |-> "nil"]
        ELSE [Number |-> originals[i].PieceNumber, Data |-> originals[i].Data]]

\* FEC.Correct: it succeeds when at least RequiredCount of the shares are
\* unaltered; blank shares are replaced and altered shares overwritten by
\* the shares of the codeword. A share it fills carries its index as number
\* (numbered), or the number it came with.
CorrectOk(copies) ==
    Cardinality({i \in 1..Len(copies) : copies[i].Data = "good"}) >= RequiredCount

Correct(copies, numbered) ==
    [i \in 1..Len(copies) |->
        [Number |-> IF copies[i].Data = "nil" /\ numbered THEN i - 1 ELSE copies[i].Number,
         Data   |-> "good"]]

\* auditShares: the numbers of the corrected shares that differ from the
\* originals at the same index.
auditShares(originals, numbered) ==
    LET corrected == Correct(makeCopies(originals), numbered)
        differ    == SelectSeq([i \in 1..Len(originals) |-> i],
                               LAMBDA i : originals[i].Data # corrected[i].Data)
    IN  [j \in 1..Len(differ) |-> corrected[differ[j]].Number]

\* getSuccessNodes.
getSuccessNodes(failedIds, offlineIds) ==
    SelectSeq([i \in 1..TotalCount |-> AuditNode(i - 1)],
              LAMBDA n : n \notin Range(failedIds) /\ n \notin Range(offlineIds))

WithStatus(ns, class) == [j \in 1..Len(ns) |-> [id |-> ns[j], class |-> class]]

\* setVerifiedNodes: the offline nodes, then the failed, then the successful.
setVerifiedNodes(offlineIds, failedIds, successIds) ==
    WithStatus(offlineIds, "offline") \o WithStatus(failedIds, "failed")
        \o WithStatus(successIds, "success")

\* Verifier.verify on the shares that came with the given outcomes.
verify(outcome, numbered) ==
    LET originals    == DownloadShares(outcome)
        withError    == SelectSeq(originals, LAMBDA s : s.Error)
        offlineIds == [j \in 1..Len(withError) |-> AuditNode(withError[j].PieceNumber)]
        pieceNums    == auditShares(originals, numbered)
        failedIds  == [j \in 1..Len(pieceNums) |-> AuditNode(pieceNums[j])]
    IN  IF ~CorrectOk(makeCopies(originals))
        THEN [err |-> TRUE, verifiedNodes |-> <<>>]
        ELSE [err |-> FALSE,
              verifiedNodes |-> setVerifiedNodes(offlineIds, failedIds,
                                    getSuccessNodes(failedIds, offlineIds))]

\* One audit of a stripe: the downloads come to some outcomes (or the node
\* lookup fails), verify classifies the nodes.
Verify ==
    \E outcome \in [1..TotalCount -> ShareOutcomes], lookupOk \in BOOLEAN,
       numbered \in BOOLEAN :
        /\ lastVerify' = IF ~lookupOk
                         THEN [called |-> TRUE, outcome |-> outcome, err |-> TRUE,
                               verifiedNodes |-> <<>>]
                         ELSE [called |-> TRUE, outcome |-> outcome,
                               err |-> verify(outcome, numbered).err,
                               verifiedNodes |-> verify(outcome, numbered).verifiedNodes]
        /\ UNCHANGED notVerifierVars

NextVerifier == Verify

SpecVerifier == Init /\ [][NextVerifier]_vars

\* ------------------------------------------------------------------------
\* The agreement sender of the storage node (agreementsender)
\* ------------------------------------------------------------------------

\* psdb.GetBandwidthAllocations: the stored agreements of one satellite, in
\* the order of their rows.
AgreementsOf(db, s) ==
    SelectSeq([a \in 1..MaxAgreements |-> a],
              LAMBDA a : a \in db /\ SatelliteOf(a) = s)

\* The agreementGroups of one tick, in one of the orders of the map.
AgreementGroups(db, order) ==
    LET withRows == SelectSeq(order, LAMBDA s : AgreementsOf(db, s) # <<>>)
    IN  [j \in 1..Len(withRows) |->
            [satellite |-> withRows[j], agreements |-> AgreementsOf(db, withRows[j])]]

\* The orders in which a range over the map of groups can run.
SatelliteOrders ==
    {order \in [1..NumSatellites -> Satellites] :
        \A i, j \in 1..NumSatellites : i # j => order[i] # order[j]}

\* A session of the piece store server stores the agreement of a finished
\* transfer (psdb.WriteBandwidthAllocToDB).
WriteAgreement ==
    /\ written < MaxAgreements
    /\ dbUp
    /\ written' = written + 1
    /\ agreementsDb' = agreementsDb \cup {written + 1}
    /\ UNCHANGED <<satUp, dbUp, tickPc, tickGroups, chanC, senders, failedOnce>>
    /\ UNCHANGED notSenderVars

\* The ticker goroutine at a tick: it reads the agreements; on an error it
\* waits for the next tick.
Tick ==
    /\ tickPc = "wait"
    /\ \E order \in SatelliteOrders :
         LET groups == AgreementGroups(agreementsDb, order)
         IN  IF ~dbUp \/ groups = <<>>
             THEN UNCHANGED <<tickPc, tickGroups, failedOnce>>
             ELSE /\ tickPc' = "push"
                  /\ tickGroups' = groups
    /\ UNCHANGED <<agreementsDb, written, satUp, dbUp, chanC, senders, failedOnce>>
    /\ UNCHANGED notSenderVars

\* The ticker goroutine after its last group: it runs one round only.
AfterGroupsOnce(rest) == IF rest = <<>> THEN "stopped" ELSE "push"

\* The ticker goroutine after its last group waits for the next tick.
AfterGroups(rest) == IF rest = <<>> THEN "wait" ELSE "push"

\* The ticker goroutine hands the next group to the channel c, which holds
\* one group.
PushGroup ==
    /\ tickPc = "push"
    /\ chanC = <<>>
    /\ chanC' = <<Head(tickGroups)>>
    /\ tickGroups' = Tail(tickGroups)
    /\ tickPc' = AfterGroups(Tail(tickGroups))
    /\ UNCHANGED <<agreementsDb, written, satUp, dbUp, senders, failedOnce>>
    /\ UNCHANGED notSenderVars

\* The loop of Run takes a group from c and starts a goroutine for it (the
\* context of Run is not cancelled).
TakeGroup ==
    /\ chanC # <<>>
    /\ \E i \in 1..MaxSenders :
         /\ senders[i].pc = "idle"
         /\ \A j \in 1..(i - 1) : senders[j].pc # "idle"
         /\ senders' = [senders EXCEPT ![i] =
                           [IdleSender EXCEPT !.pc = "open",
                                              !.satellite = chanC[1].satellite,
                                              !.todo = chanC[1].agreements]]
    /\ chanC' = <<>>
    /\ UNCHANGED <<agreementsDb, written, satUp, dbUp, tickPc, tickGroups, failedOnce>>
    /\ UNCHANGED notSenderVars

\* The goroutine looks the satellite up, dials it and opens the stream; when
\* one of these fails it returns.
SenderOpen(i) ==
    /\ senders[i].pc = "open"
    /\ senders' = [senders EXCEPT ![i] =
                      IF satUp[senders[i].satellite]
                      THEN [@ EXCEPT !.pc = "send"]
                      ELSE IdleSender]
    /\ failedOnce' = IF satUp[senders[i].satellite] THEN failedOnce
                      ELSE failedOnce \cup Range(senders[i].todo)
    /\ UNCHANGED <<agreementsDb, written, satUp, dbUp, tickPc, tickGroups, chanC>>
    /\ UNCHANGED notSenderVars

\* stream.Send of the next agreement: on a broken stream it fails and the
\* goroutine returns through the deferred CloseAndRecv.
SenderSend(i) ==
    /\ senders[i].pc = "send"
    /\ IF senders[i].todo = <<>> \/ senders[i].broken
       THEN /\ senders' = [senders EXCEPT ![i].pc = "close"]
            /\ failedOnce' = IF senders[i].todo = <<>> THEN failedOnce
                              ELSE failedOnce \cup {Head(senders[i].todo)}
       ELSE /\ senders' = [senders EXCEPT
                              ![i].pc = "delete",
                              ![i].carried = @ \cup {Head(senders[i].todo)}]
            /\ UNCHANGED failedOnce
    /\ UNCHANGED <<agreementsDb, written, satUp, dbUp, tickPc, tickGroups, chanC>>
    /\ UNCHANGED notSenderVars

\* as.DB.DeleteBandwidthAllocationBySignature of the agreement just sent; on
\* an error the goroutine returns through the deferred CloseAndRecv.
SenderDelete(i) ==
    /\ senders[i].pc = "delete"
    /\ IF dbUp
       THEN /\ agreementsDb' = agreementsDb \ {Head(senders[i].todo)}
            /\ senders' = [senders EXCEPT ![i].pc = "send", ![i].todo = Tail(@)]
       ELSE /\ senders' = [senders EXCEPT ![i].pc = "close"]
            /\ UNCHANGED agreementsDb
    /\ UNCHANGED <<written, satUp, dbUp, tickPc, tickGroups, chanC, failedOnce>>
    /\ UNCHANGED notSenderVars

\* The deferred stream.CloseAndRecv: the satellite acknowledges what the
\* stream carried; on a broken stream the call fails.
SenderClose(i) ==
    /\ senders[i].pc = "close"
    /\ senders' = [senders EXCEPT ![i] = IdleSender]
    /\ UNCHANGED <<agreementsDb, written, satUp, dbUp, tickPc, tickGroups, chanC, failedOnce>>
    /\ UNCHANGED notSenderVars

\* A satellite becomes unreachable: its open streams break.
SatelliteDown(s) ==
    /\ satUp[s]
    /\ satUp' = [satUp EXCEPT ![s] = FALSE]
    /\ senders' = [i \in 1..MaxSenders |->
                      IF senders[i].satellite = s /\ senders[i].pc \in {"send", "delete", "close"}
                      THEN [senders[i] EXCEPT !.broken = TRUE]
                      ELSE senders[i]]
    /\ UNCHANGED <<agreementsDb, written, dbUp, tickPc, tickGroups, chanC, failedOnce>>
    /\ UNCHANGED notSenderVars

\* A satellite becomes reachable.
SatelliteUp(s) ==
    /\ ~satUp[s]
    /\ satUp' = [satUp EXCEPT ![s] = TRUE]
    /\ UNCHANGED <<agreementsDb, written, dbUp, tickPc, tickGroups, chanC, senders, failedOnce>>
    /\ UNCHANGED notSenderVars

\* The database of the storage node starts or stops to fail.
DbToggle ==
    /\ dbUp' = ~dbUp
    /\ UNCHANGED <<agreementsDb, written, satUp, tickPc, tickGroups, chanC, senders, failedOnce>>
    /\ UNCHANGED notSenderVars

\* One goroutine of Run and the stream it holds.
SenderRun(i) ==
    \/ SenderOpen(i)
    \/ SenderSend(i)
    \/ SenderDelete(i)
    \/ SenderClose(i)

SenderStep == \E i \in 1..MaxSenders : SenderRun(i)

Environment ==
    \/ \E s \in Satellites : SatelliteDown(s)
    \/ \E s \in Satellites : SatelliteUp(s)
    \/ DbToggle

NextSender ==
    \/ WriteAgreement
    \/ Tick
    \/ PushGroup
    \/ TakeGroup
    \/ SenderStep
    \/ Environment

SpecSender == Init /\ [][NextSender]_vars

\* The ticker keeps ticking, the goroutines and the satellite keep running.
SpecSenderFair ==
    /\ SpecSender
    /\ WF_vars(Tick)
    /\ WF_vars(PushGroup)
    /\ WF_vars(TakeGroup)
    /\ \A i \in 1..MaxSenders : WF_vars(SenderRun(i))

\* ------------------------------------------------------------------------
\* The erasure decoder over piece readers (eestream.DecodeReaders)
\* ------------------------------------------------------------------------

\* What a piece reader of the read does: it delivers its share, it returns
\* an error, it is not in the reader map, or it never answers.
ReaderBehaviours == {"good", "error", "missing", "stall"}

CountReaders(rs, states) ==
    Cardinality({i \in Indices : rs[i].state \in states})

\* Decode: the stripe out of at least RequiredCount distinct shares.
Decode(shareIdx) ==
    IF Cardinality(shareIdx) < RequiredCount THEN "InsufficientShares" ELSE "original"

\* The read is complete only when no reader is pending any more.
OutcomeWaitsForAll(rs) ==
    IF CountReaders(rs, {"pending"}) > 0 THEN "reading"
    ELSE IF CountReaders(rs, {"delivered"}) >= RequiredCount THEN "ok"
    ELSE "error"

\* Where the read stands: complete with RequiredCount shares, failed when
\* RequiredCount shares cannot come any more, else waiting.
Outcome(rs) ==
    IF CountReaders(rs, {"delivered"}) >= RequiredCount THEN "ok"
    ELSE IF CountReaders(rs, {"failed", "absent"}) > TotalCount - RequiredCount THEN "error"
    ELSE "reading"

Decoded(rs) ==
    IF Outcome(rs) = "ok"
    THEN Decode({i \in Indices : rs[i].state = "delivered"})
    ELSE "none"

\* DecodeReaders and the first Read: the readers of the map are asked for
\* their share.
DecodeReaders ==
    /\ decodeResult = "idle"
    /\ \E behaviour \in [Indices -> ReaderBehaviours] :
         LET rs == [i \in Indices |->
                       [behaviour |-> behaviour[i],
                        state |-> IF behaviour[i] = "missing" THEN "absent" ELSE "pending"]]
         IN  /\ readers' = rs
             /\ decodeResult' = Outcome(rs)
             /\ decoded' = Decoded(rs)
    /\ UNCHANGED notDecodeVars

\* A reader answers with its share or with an error; the decoder completes
\* when that settles the read.
ReaderAnswers(i) ==
    /\ decodeResult = "reading"
    /\ readers[i].state = "pending"
    /\ readers[i].behaviour \in {"good", "error"}
    /\ LET rs == [readers EXCEPT ![i].state =
                     IF readers[i].behaviour = "good" THEN "delivered" ELSE "failed"]
       IN  /\ readers' = rs
           /\ decodeResult' = Outcome(rs)
           /\ decoded' = Decoded(rs)
    /\ UNCHANGED notDecodeVars

NextDecode ==
    \/ DecodeReaders
    \/ \E i \in Indices : ReaderAnswers(i)

SpecDecode == Init /\ [][NextDecode]_vars

\* Every reader that answers at all does so in the end.
SpecDecodeFair ==
    /\ SpecDecode
    /\ \A i \in Indices : WF_vars(ReaderAnswers(i))

\* ------------------------------------------------------------------------
\* Properties of the upload (SpecUpload)
\* ------------------------------------------------------------------------

\* The piece Puts that completed without error.
okPuts == {i \in Indices : putState[i] = "ok"}

ecPutReturned == ecErr \in {"ok", "threshold", "cancelled"}

\* C1: when the context was not cancelled during ecClient.Put, Put returns
\* an error if and only if fewer than RepairThreshold piece Puts completed
\* without error.
C1_ErrorIffBelowRepairThreshold ==
    (ecPutReturned /\ cancelledAt # "collect")
        => ((ecErr # "ok") <=> (Cardinality(okPuts) < RepairThreshold))

\* An upload not cancelled that fails with exactly RepairThreshold - 1
\* successful piece Puts.
C1_Witness ==
    /\ ecErr = "threshold"
    /\ ~ctxDone
    /\ Cardinality(okPuts) = RepairThreshold - 1

\* C2: the pointer written for a successful remote upload lists exactly the
\* nodes whose piece Put succeeded, each with PieceNum equal to the node's
\* index in the chosen node list, in ascending PieceNum order.
C2_PointerListsSuccessfulNodes ==
    \A p \in Paths :
        (pointers[p] # <<>> /\ pointers[p][1].Type = "REMOTE") =>
            LET rp == pointers[p][1].Remote[1].RemotePieces IN
            /\ Range(rp) = {[PieceNum |-> i - 1, NodeId |-> nodes[i]] : i \in okPuts}
            /\ \A j \in 1..(Len(rp) - 1) : rp[j].PieceNum < rp[j+1].PieceNum
            /\ Len(rp) = Cardinality(okPuts)

\* A pointer was written after exactly one piece Put failed, and that Put
\* was not the last of the list: the pointer references TotalCount - 1
\* pieces.
C2_Witness ==
    \E p \in Paths :
        /\ pointers[p] # <<>>
        /\ pointers[p][1].Type = "REMOTE"
        /\ Len(pointers[p][1].Remote[1].RemotePieces) = TotalCount - 1
        /\ Cardinality(okPuts) = TotalCount - 1
        /\ putState[1] # "ok"

\* C3 (as claimed): when the upload aborts because fewer than
\* RepairThreshold piece Puts succeeded, a delete has been issued to every
\* node that stored its piece.
C3_AbortDeletesStoredPieces ==
    (pc = "returned" /\ ecErr = "threshold")
        => \A i \in okPuts : delState[i] # "none"

\* C4 (as claimed): when ecClient.Put succeeded and the pointer write
\* failed, a delete has been issued to every node that accepted a share.
C4_PointerFailureDeletesPieces ==
    (pc = "returned" /\ ecErr = "ok" /\ putErr = "pdbPut")
        => \A i \in okPuts : delState[i] # "none"

\* C5: when the context is cancelled while ecClient.Put is in flight, Put
\* returns an error, no piece Put is still running, the delete goroutine of
\* every node of the list has run to its end, and no node whose delete
\* succeeded holds anything of the segment.
C5_CancelDeletesEverywhere ==
    (cancelledAt = "collect" /\ pc = "returned") =>
        /\ ecErr = "cancelled"
        /\ putErr = "ecPut"
        /\ \A i \in Indices :
            /\ putState[i] # "running"
            /\ delState[i] \in DeleteOutcomes
            /\ (delState[i] = "deleted" => piece[i] = "none")

\* A cancelled upload has returned; a stored piece and a partial piece
\* have both been deleted.
C5_Witness ==
    /\ cancelledAt = "collect"
    /\ pc = "returned"
    /\ \E i, j \in Indices :
        /\ putState[i] = "ok" /\ delState[i] = "deleted"
        /\ putState[j] = "err" /\ delState[j] = "deleted"

\* C6 (as claimed): once OptimalThreshold piece Puts have succeeded,
\* ecClient.Put does not wait for a Put that is still running.
C6_NoWaitBeyondOptimal ==
    ~(/\ pc = "collect"
      /\ successfulCount >= OptimalThreshold
      /\ \E i \in Indices : putState[i] = "running")

\* ------------------------------------------------------------------------
\* Properties of the pointer store, the checker and Repair (SpecRepair)
\* ------------------------------------------------------------------------

IsRemote(p) == pointers[p] # <<>> /\ pointers[p][1].Type = "REMOTE"

PiecesOf(p) == pointers[p][1].Remote[1].RemotePieces

\* Pieces of the pointer at p whose node the overlay resolves.
HealthyPieces(p) == {i \in 1..Len(PiecesOf(p)) : PiecesOf(p)[i].NodeId \in overlay}

C8_EnqueuedIffBelowThreshold ==
    \A p \in lastPass.examined :
        (\E e \in lastPass.enqueued : e.Path = p)
            <=> (Cardinality(HealthyPieces(p))
                    < pointers[p][1].Remote[1].Redundancy.RepairThreshold)

\* A pass has just enqueued a segment with RepairThreshold - 1 healthy
\* pieces.
C8_Witness ==
    \E e \in lastPass.enqueued :
        Cardinality(HealthyPieces(e.Path)) = RepairThreshold - 1

\* C9 (as claimed): the LostPieces of an entry enqueued by a checker pass
\* are the piece numbers of exactly the pieces whose node is missing.
C9_LostPiecesArePieceNums ==
    \A e \in lastPass.enqueued :
        Range(e.LostPieces) =
            {PiecesOf(e.Path)[i].PieceNum :
                i \in (1..Len(PiecesOf(e.Path))) \ HealthyPieces(e.Path)}

\* C10 (as claimed): Repair asks for exactly as many nodes as pieces are
\* missing, excludes every surviving node, and assigns one fresh node that
\* is not a surviving one to each missing piece number and to no other.
C10_RepairAsksForMissingCount ==
    (lastRepair.called /\ lastRepair.originalNodes # <<>>) =>
        LET orig    == lastRepair.originalNodes
            missing == {j \in 1..Len(orig) : orig[j] = NIL}
            rl      == lastRepair.repairNodesList
        IN  /\ lastRepair.amount = Cardinality(missing)
            /\ lastRepair.excluded = Range(orig) \ {NIL}
            /\ rl # <<>> =>
                /\ \A j \in 1..Len(orig) : (rl[j] # NIL) <=> (j \in missing)
                /\ \A j \in missing : rl[j] \notin Range(orig)
                /\ \A i, j \in missing : i # j => rl[i] # rl[j]

\* C11 (as claimed): after a successful Repair the stored pointer keeps
\* every surviving piece, references TotalCount pieces whose node the
\* overlay resolves, and a checker pass would not find the segment injured.
C11_RepairRestoresAllPieces ==
    (lastRepair.err = "nil") =>
        LET p    == lastRepair.path
            orig == lastRepair.originalNodes
        IN  /\ \A j \in 1..Len(orig) :
                orig[j] # NIL =>
                    [PieceNum |-> j - 1, NodeId |-> orig[j]] \in Range(PiecesOf(p))
            /\ Cardinality(HealthyPieces(p)) = TotalCount
            /\ ~IsInjured(Cardinality(HealthyPieces(p)),
                          pointers[p][1].Remote[1].Redundancy.RepairThreshold)

\* C12: the repair queue never holds two entries for one path, and every
\* step leaves the queue alone, removes its oldest entry, or adds entries
\* behind the ones it holds: entries leave in the order their paths were
\* first enqueued.
C12_QueueIdempotentFifo ==
    /\ [](\A i, j \in 1..Len(queue) : i # j => queue[i].Path # queue[j].Path)
    /\ [][\/ queue' = queue
          \/ queue # <<>> /\ queue' = Tail(queue)
          \/ /\ Len(queue') > Len(queue)
             /\ SubSeq(queue', 1, Len(queue)) = queue]_vars

\* A pass has just found both segments injured; the second of the pass was
\* in the queue before it, and still is its one and oldest entry.
C12_Witness ==
    /\ Cardinality(lastPass.enqueued) = 2
    /\ Len(queue) = 2
    /\ Head(queue).Path = PathSeq[2]

\* ------------------------------------------------------------------------
\* Properties of the Retrieve session (SpecRetrieve)
\* ------------------------------------------------------------------------

\* C13: the piece bytes sent to the client never exceed the largest total
\* of a verified allocation the server has received in the session.
C13_SentWithinAllocation == sent <= maxVerified

\* The whole section was sent against a second allocation that raised the
\* total to the section's length.
C13_Witness ==
    /\ sent = MaxLength
    /\ maxVerified = MaxLength
    /\ lastAllocation # <<>>
    /\ lastAllocation[1].id > 1

\* C14 (as claimed): once an allocation with a total lower than the last
\* accepted one has been received during the session, no piece byte is sent
\* any more and the session returns an error.
C14_LowerAllocationStopsSending ==
    (sentAtLower # <<>>) =>
        /\ sent = sentAtLower[1]
        /\ snd = "returned" => retErr \notin {"nil", "none"}

\* C15 (as claimed): when the session has returned and an allocation passed
\* every check, the database holds exactly one allocation of the session,
\* the last one that passed the checks.
C15_LastAllocationWrittenOnce ==
    (snd = "returned" /\ retErr # "reader" /\ lastValid # <<>>)
        => bwAllocDb = <<lastValid[1]>>

C17_PersistsHighestTotal ==
    (storeAllocDb # <<>> /\ verifiedAllocs # <<>>) =>
        /\ storeAllocDb[1] # <<>>
        /\ storeAllocDb[1][1] \in Range(verifiedAllocs)
        /\ \A i \in 1..Len(verifiedAllocs) :
            verifiedAllocs[i].total <= storeAllocDb[1][1].total

\* What the code does hold to: the allocation written is the first received
\* among the verified allocations with the highest total, provided that
\* total is positive; when no verified allocation has a positive total,
\* the write is made with no allocation.  There is one write.
StorePersistsFirstHighestPositive ==
    /\ Len(storeAllocDb) <= 1
    /\ storeAllocDb # <<>> =>
        LET pos == {i \in 1..Len(verifiedAllocs) : verifiedAllocs[i].total > 0}
        IN  IF pos = {} THEN storeAllocDb[1] = <<>>
            ELSE \E i \in pos :
                /\ storeAllocDb[1] = <<verifiedAllocs[i]>>
                /\ \A j \in pos :
                    \/ verifiedAllocs[j].total < verifiedAllocs[i].total
                    \/ verifiedAllocs[j].total = verifiedAllocs[i].total /\ i <= j

\* C18 (as claimed): when a Store session has returned an error after the
\* piece file was created, and no deleteByID failed, neither the piece file
\* nor a TTL row of the piece id is left.
C18_FailedStoreLeavesNothing ==
    (/\ spc = "returned"
     /\ storeErr \notin {"nil", "none", "request", "writer"}
     /\ ~deleteFailed)
        => (pieceFile = <<>> /\ ttlRow = <<>>)

\* C19 (as claimed): the bytes written to the piece file never exceed the
\* bandwidth left nor the space left of the session, and the session fails
\* with out-of-bandwidth or out-of-space only when the bytes received
\* exceed that budget.
C19_BudgetsRespected ==
    /\ (spc \in {"copy", "abort", "eof"} /\ pieceFile # <<>>
        /\ storeErr \notin {"writer", "db"}) =>
            (pieceFile[1] <= bwLeft /\ pieceFile[1] <= spaceLeft)
    /\ storeErr = "out of bandwidth" => sofar > bwLeft
    /\ storeErr = "out of space" => sofar > spaceLeft

\* ------------------------------------------------------------------------
\* Properties of the MultipartStream (SpecMultipart)
\* ------------------------------------------------------------------------

\* The content of the part with the given id, byte by byte.
PartBytes(id) == [k \in 1..PartSize(id) |-> <<id, k>>]

\* The contents of the parts 1..m, one after the other.
RECURSIVE ExpectedStream(_)
ExpectedStream(m) ==
    IF m = 0 THEN <<>> ELSE ExpectedStream(m - 1) \o PartBytes(m)

IsPrefix(a, b) == Len(a) <= Len(b) /\ SubSeq(b, 1, Len(a)) = a

\* No part id was added twice.
AddedOnce ==
    \A i, j \in 1..Len(addOrder) : i # j => addOrder[i] # addOrder[j]

\* C20: when every part id is added once, the bytes returned by the Reads
\* are at every moment the beginning of the parts' contents in ascending id
\* order; Read does not return while the stream is open and without error
\* and the part with the next id is not there; and when the ids 1..m were
\* added before Close, the Reads up to io.EOF return exactly the contents
\* of the parts 1..m in that order.
C20_PartsInIdOrder ==
    AddedOnce =>
        /\ IsPrefix(readOut, ExpectedStream(MaxPartID))
        /\ rd = "eof" => mClosed
        /\ (/\ rd = "read" /\ ~mClosed /\ mErr = "nil"
            /\ ~\E i \in 1..Len(mparts) : mparts[i].ID = mNextID)
                => ~ENABLED ReadBegin
        /\ (/\ rd = "eof"
            /\ addedAtClose = <<Range(addOrder)>>
            /\ \E m \in 0..MaxPartID : Range(addOrder) = 1..m)
                => readOut = ExpectedStream(Len(addOrder))

\* The parts 3, 1, 2 were added in this order, the stream was closed and
\* read to io.EOF.
C20_Witness ==
    /\ rd = "eof"
    /\ addOrder = <<3, 1, 2>>
    /\ addedAtClose = <<{1, 2, 3}>>
    /\ readOut = ExpectedStream(3)

\* C21 (as claimed): every part that was waiting on its Done channel when
\* Abort(err) was called has received err on it.
C21_AbortFailsWaitingParts ==
    abortPending # <<>> =>
        \A k \in abortPending[1] : partDone[k] = "abort"

\* C22 (as claimed): Read has returned io.EOF only on a closed stream with
\* no part pending, and a Read on a closed stream without error, whose
\* added parts have all been read to their end, returns io.EOF.
C22_EofWhenDrained ==
    /\ rd = "eof" => (mClosed /\ mparts = <<>>)
    /\ (/\ rd = "read" /\ mClosed /\ mErr = "nil"
        /\ \A k \in 0..(mNextNumber - 1) : partDone[k] = "closed")
            => (ENABLED ReadBegin /\ mparts = <<>>)

\* ------------------------------------------------------------------------
\* Properties of the connection pool (SpecPool)
\* ------------------------------------------------------------------------

\* C23: the transport dial of a Conn is made at most once, a Dial returns
\* only after the dial of its Conn was made and returns the outcome of
\* that one dial; as long as no Disconnect has removed an entry, every
\* Dial call uses the same Conn.
C23_DialOnceShared ==
    /\ \A c \in 1..Len(conns) :
        /\ conns[c].dials <= 1
        /\ conns[c].dials = 1 <=> conns[c].dial = "done"
    /\ \A t \in Callers :
        (caller[t].pc = "idle" /\ caller[t].result # "none") =>
            /\ conns[caller[t].conn].dials = 1
            /\ caller[t].result = DialResult(conns[caller[t].conn])
    /\ (\A c \in 1..Len(conns) : ~conns[c].closed) => Len(conns) <= 1

\* Every thread, and MaxDials calls in all, have returned the client of the
\* one dial made.
C23_Witness ==
    /\ dialCalls = MaxDials
    /\ Len(conns) = 1
    /\ conns[1].dials = 1
    /\ \A t \in Callers : caller[t].pc = "idle" /\ caller[t].result = "client"

\* C24 (as claimed): a Conn that was the entry of the pool when Disconnect
\* was called is not the entry any more.
C24_DisconnectRemovesEntry ==
    \A c \in disconnected : poolItems # <<c>>

\* ------------------------------------------------------------------------
\* Properties of the pointer service (SpecPointerdb)
\* ------------------------------------------------------------------------

\* C25: a pointer-service RPC called without a valid API key returns
\* Unauthenticated, whatever its other request fields are, and leaves the
\* pointer store as it was.
C25_UnauthenticatedFirst ==
    (lastCall.rpc # "none" /\ lastCall.key # "valid") =>
        (lastCall.status = "Unauthenticated" /\ pdb = lastCall.before)

\* ------------------------------------------------------------------------
\* Properties of the audit cursor (SpecCursor)
\* ------------------------------------------------------------------------

\* C26: a NextStripe whose listing succeeded listed the pointers strictly
\* after last_path, left last_path at the last listed path when the listing
\* was truncated, and reset last_path to the start when the listing was
\* exhausted, also when nothing remained after last_path.
C26_CursorPagesOrResets ==
    (lastNext.called /\ lastNext.listed) =>
        /\ \A i \in 1..Len(lastNext.page) : lastNext.page[i] > lastNext.startAfter
        /\ lastNext.more => lastPath = lastNext.page[Len(lastNext.page)]
        /\ ~lastNext.more => lastPath = StartPath

\* ------------------------------------------------------------------------
\* Properties of the audit verifier (SpecVerifier)
\* ------------------------------------------------------------------------

\* The class that the claim gives the node of a share.
ClassOf(shareOutcome) ==
    CASE shareOutcome = "offline" -> "offline"
      [] shareOutcome = "bad"     -> "failed"
      [] shareOutcome = "good"    -> "success"

\* C27: a report of verify names every node of the segment exactly once,
\* as offline iff its share could not be downloaded, as failed iff its share
\* was downloaded but differs from the corrected share, as success otherwise.
C27_EachNodeInItsClass ==
    (lastVerify.called /\ ~lastVerify.err) =>
        \A i \in 1..TotalCount :
            /\ Cardinality({j \in 1..Len(lastVerify.verifiedNodes) :
                               lastVerify.verifiedNodes[j].id = AuditNode(i - 1)}) = 1
            /\ \A j \in 1..Len(lastVerify.verifiedNodes) :
                   lastVerify.verifiedNodes[j].id = AuditNode(i - 1) =>
                       lastVerify.verifiedNodes[j].class = ClassOf(lastVerify.outcome[i])

\* Without a failed download the report of verify is the claimed one.
VerifyRightWhenAllDownloaded ==
    (lastVerify.called /\ ~lastVerify.err
        /\ \A i \in 1..TotalCount : lastVerify.outcome[i] # "offline") =>
        C27_EachNodeInItsClass
\* ------------------------------------------------------------------------
\* Properties of the agreement sender (SpecSender, SpecSenderFair)
\* ------------------------------------------------------------------------

\* C28: an agreement is deleted from the database of the storage node only
\* after its satellite has acknowledged it: as long as the stream that
\* carried it has not been acknowledged, or when that stream has failed, the
\* agreement is still in the database.
C28_DeletedOnlyWhenAcked ==
    \A i \in 1..MaxSenders : \A a \in senders[i].carried : a \in agreementsDb

\* The satellite of an agreement is reachable and the database works.
Reachable(a) == satUp[SatelliteOf(a)] /\ dbUp

\* An agreement leaves the database only in the step that follows a Send of
\* it that returned nil: a failed lookup, dial, stream-open or Send leaves
\* it stored.
FailedStaysStored ==
    \A a \in 1..MaxAgreements :
        (a \in agreementsDb /\ a \notin agreementsDb') =>
            \E i \in 1..MaxSenders :
                /\ senders[i].pc = "delete"
                /\ Head(senders[i].todo) = a
                /\ a \in senders[i].carried

\* C29: an agreement whose delivery failed (lookup, dial, stream-open or
\* Send) stays stored and is tried again at a later tick: a stored agreement
\* whose satellite is and stays reachable is in the end sent without a
\* failure and deleted.
C29_RetriedUntilDelivered ==
    /\ [][FailedStaysStored]_vars
    /\ \A a \in 1..MaxAgreements :
          (a \in agreementsDb) ~> (a \notin agreementsDb \/ ~Reachable(a))

\* Every agreement had a failed attempt, and all are sent and deleted.
C29_Witness ==
    /\ written = MaxAgreements
    /\ failedOnce = 1..MaxAgreements
    /\ agreementsDb = {}
\* ------------------------------------------------------------------------
\* Properties of the erasure decoder (SpecDecode, SpecDecodeFair)
\* ------------------------------------------------------------------------

\* The readers of the read with one of the given behaviours.
Behaving(kinds) == {i \in Indices : readers[i].behaviour \in kinds}

\* As soon as RequiredCount readers have delivered, the read is complete
\* with the original data, whatever the other readers do; an error comes
\* only when more than TotalCount - RequiredCount readers failed.
DecodeSafe ==
    /\ CountReaders(readers, {"delivered"}) >= RequiredCount =>
           (decodeResult = "ok" /\ decoded = "original")
    /\ decodeResult = "ok" => decoded = "original"
    /\ decodeResult = "error" =>
           Cardinality(Behaving({"error", "missing"})) > TotalCount - RequiredCount

\* C30: a read from the piece readers yields the original data whenever at
\* most TotalCount - RequiredCount readers fail, are missing or stall, fails
\* when more than that many fail, and is complete as soon as RequiredCount
\* readers have delivered, stalled readers or not.
C30_DecodeTolerates ==
    /\ []DecodeSafe
    /\ (/\ decodeResult # "idle"
        /\ Cardinality(Behaving({"error", "missing", "stall"})) <= TotalCount - RequiredCount)
           ~> (decodeResult = "ok" /\ decoded = "original")
    /\ (/\ decodeResult # "idle"
        /\ Cardinality(Behaving({"error", "missing"})) > TotalCount - RequiredCount)
           ~> (decodeResult = "error")

\* RequiredCount readers have delivered, all the others stall, and the read
\* is complete.
C30_Witness ==
    /\ decodeResult = "ok"
    /\ Cardinality(Behaving({"stall"})) = TotalCount - RequiredCount
    /\ CountReaders(readers, {"pending"}) = TotalCount - RequiredCount
    /\ CountReaders(readers, {"delivered"}) = RequiredCount
LastOf(s, n) == IF Len(s) <= n THEN s ELSE SubSeq(s, Len(s) - n + 1, Len(s))

\* C33: the replacement cache of every k-bucket holds the nodes inserted
\* into that bucket last, at most rcBucketSize of them, in the order of
\* their insertion: a full cache loses its oldest node, and insertions into
\* another bucket change nothing.
C33_ReplacementCacheFifo ==
    \A b \in KadBuckets :
        /\ Len(replacementCache[b]) <= rcBucketSize
        /\ replacementCache[b] = LastOf(rcInserted[b], rcBucketSize)

\* One bucket holds a node, the other has had one insertion more than its
\* capacity and lost its first node.
C33_Witness ==
    /\ Len(rcInserted[1]) = 1
    /\ replacementCache[1] = rcInserted[1]
    /\ Len(rcInserted[2]) = rcBucketSize + 1
    /\ replacementCache[2] = Tail(rcInserted[2])
    /\ rcInserted[2][1] \notin Range(replacementCache[2])

\* C34: a Repair of a segment with fewer than RequiredCount pieces on nodes
\* the overlay resolves returns an error, puts no piece on any node, and
\* leaves the pointer of the path as it was.
C34_TooFewHealthyRepairsNothing ==
    (/\ lastRepair.called
     /\ lastRepair.originalNodes # <<>>
     /\ Cardinality({j \in 1..Len(lastRepair.originalNodes) :
                        lastRepair.originalNodes[j] # NIL}) < RequiredCount) =>
        /\ lastRepair.err \notin {"nil", "none"}
        /\ lastRepair.uploaded = {}
        /\ pointers[lastRepair.path] = lastRepair.before

\* Such a Repair that found new nodes and was turned down by ecClient.Get.
C34_Witness ==
    /\ lastRepair.called
    /\ lastRepair.err = "ecGet"
    /\ Cardinality(Range(lastRepair.originalNodes) \ {NIL}) < RequiredCount
    /\ lastRepair.repairNodesList # <<>>
    /\ pointers[lastRepair.path] = lastRepair.before

\* C35 (as claimed): in a Retrieve session in which no message fails its
\* checks, the client does not end the stream, every Send succeeds and the
\* database write succeeds, no chunk is larger than MessageSize, and when
\* the verified allocations reach the requested length the server has sent
\* exactly length bytes and retrieveData returns nil, whatever the length.
C35_RetrieveSendsLength ==
    /\ chunk <= MessageSize
    /\ (/\ snd = "returned"
        /\ retErr \notin {"reader", "bwUsed"}
        /\ \A i \in 1..Len(allocationTracking.errs) : allocationTracking.errs[i] = "EOF"
        /\ maxVerified >= length) =>
            (sent = length /\ retErr = "nil")

\* C36 (as claimed): once the stream is closed or aborted, every part that
\* AddPart accepted and whose Done channel is still open has its Done
\* channel signalled or closed in the end, whatever its id and whenever it
\* was added.
C36_EveryPartSignalled ==
    \A k \in 0..(MaxAdds - 1) :
        (partDone[k] = "open" /\ (mClosed \/ mFinished)) ~> (partDone[k] # "open")

\* C37 (as claimed): whatever the interleaving of Abort with a Read that
\* has picked a part, Read does not slice the parts that Abort has emptied
\* and does not close a Done channel that Abort has sent on and closed
\* (either one is the panic of the reading goroutine).
C37_AbortDuringReadIsSafe ==
    rd # "panic"

\* C38 (as claimed): a Read that is called after Abort and returns,
\* returns no bytes and an error that is neither nil nor io.EOF.
C38_ReadAfterAbortFails ==
    [][(/\ abortPending # <<>>
        /\ rd \in {"read", "empty"}
        /\ rd' \in {"empty", "eof", "failed"})
            => rd' = "failed"]_vars

\* C39 (as claimed): no two goroutines are in the pending map at the same
\* time when one of them writes to it: every modification of the registry
\* excludes every other access.
C39_RegistryAccessExclusive ==
    \A g \in Goroutines : Accessing(g) => ~Races(g)

\* C40 (as claimed): a checker pass over a pointer store that holds an
\* INLINE pointer does not fault on it; when the pass runs to its end it
\* has enqueued nothing for the INLINE pointers and has examined every
\* REMOTE pointer.
C40_PassSkipsInlinePointers ==
    (/\ lastPass # NoPass
     /\ \E p \in Paths : pointers[p] # <<>> /\ pointers[p][1].Remote = <<>>)
        => /\ lastPass.fault # "nil Remote"
           /\ lastPass.fault = "none" =>
                 /\ \A e \in lastPass.enqueued : pointers[e.Path][1].Remote # <<>>
                 /\ \A p \in Paths :
                       (pointers[p] # <<>> /\ pointers[p][1].Remote # <<>>)
                           => p \in lastPass.examined

====
